---- MODULE Spec2Model ----
(***************************************************************************)
(* hstore: a content-addressable store for schema-validated JSON state.    *)
(*                                                                         *)
(* The module models                                                       *)
(*   - the JSON text codec used for every block (JSON.stringify/JSON.parse *)
(*     over a token-level byte representation),                            *)
(*   - the object store (objectStore.ts): write/read of JSON values as a   *)
(*     DAG of hashed node blocks, with its hint caches, at the granularity *)
(*     of the awaits in the code,                                          *)
(*   - the version store (createStore): head initialisation, commit, head, *)
(*     get, and a process crash followed by a new store on the same        *)
(*     adapter,                                                            *)
(*   - the block adapter as a map from hash to bytes whose writes are      *)
(*     issued, applied and acknowledged in separate steps,                 *)
(*   - the cascade adapter (cascadeAdapter.ts): probing read with          *)
(*     hydration and write fan-out over a list of layers.                  *)
(*                                                                         *)
(* Specifications:                                                         *)
(*   Spec      a store over an empty adapter whose writes succeed; commit, *)
(*             head and get are awaited one after the other,               *)
(*   SpecFail  the same store over an adapter whose writes may reject,     *)
(*   SpecOS    ObjectStore.write/read called directly, with later          *)
(*             instances over the same adapter,                            *)
(*   SpecHash  any mix of ObjectStore.write/read calls on one instance,    *)
(*   SpecBoot  store instances constructed one after another over an       *)
(*             adapter that at first holds a malformed head record,        *)
(*   SpecGet   get over an adapter seeded with missing, ill-shaped and     *)
(*             undecodable blocks,                                         *)
(*   SpecCascade  read and write called on a cascade of adapters whose     *)
(*             writes may reject.                                          *)
(***************************************************************************)
EXTENDS Integers, Sequences, FiniteSets, TLC

(***************************************************************************)
(* Bounds of the model.                                                    *)
(***************************************************************************)
MaxCommits == 2    \* commit calls on one store instance
MaxQueries == 1    \* head/get calls on one store instance
MaxTime == 1       \* largest value of the clock
MaxBoots == 2      \* store instances constructed over the adapter
MaxFailures == 1   \* adapter writes that reject

(***************************************************************************)
(* JSON values.  A value is a tagged tuple; numbers and booleans carry     *)
(* their JSON literal, objects carry their entries in insertion order.     *)
(***************************************************************************)
JNull == <<"null">>
JBool(b) == <<"bool", b>>
JNum(n) == <<"num", n>>
JStr(s) == <<"str", s>>
JArr(items) == <<"arr", items>>
JObj(entries) == <<"obj", entries>>

isJsonPrimitive(v) == v[1] \in {"null", "bool", "num", "str"}
IsArray(v) == v[1] = "arr"
IsObject(v) == v[1] = "obj"

\* The keys used by the model, listed in the order of the JavaScript `<`
\* operator on strings (UTF-16 code units): "" < "B" < "a" < "b".
KeyOrder == <<"", "B", "a", "b", "head", "previous", "timestamp", "value">>

KeyRank(k) == CHOOSE i \in 1..Len(KeyOrder) : KeyOrder[i] = k

\* a < b on strings
KeyLess(a, b) == KeyRank(a) < KeyRank(b)

(***************************************************************************)
(* Bytes.  A byte sequence is modelled as the sequence of JSON tokens of   *)
(* its UTF-8 text: punctuation, literals, numbers and strings.             *)
(***************************************************************************)
Tok(cls, text) == <<cls, text>>
LB == Tok("p", "[")
RB == Tok("p", "]")
LC == Tok("p", "{")
RC == Tok("p", "}")
COMMA == Tok("p", ",")
COLON == Tok("p", ":")

RECURSIVE JsonStringify(_)
RECURSIVE StringifyItems(_)
RECURSIVE StringifyMembers(_)

\* JSON.stringify(value) followed by TextEncoder.encode
JsonStringify(v) ==
  CASE v[1] = "null" -> <<Tok("lit", "null")>>
    [] v[1] = "bool" -> <<Tok("lit", v[2])>>
    [] v[1] = "num" -> <<Tok("num", v[2])>>
    [] v[1] = "str" -> <<Tok("str", v[2])>>
    [] v[1] = "arr" -> <<LB>> \o StringifyItems(v[2]) \o <<RB>>
    [] v[1] = "obj" -> <<LC>> \o StringifyMembers(v[2]) \o <<RC>>

StringifyItems(items) ==
  IF items = <<>> THEN <<>>
  ELSE IF Len(items) = 1 THEN JsonStringify(items[1])
  ELSE JsonStringify(items[1]) \o <<COMMA>> \o StringifyItems(Tail(items))

StringifyMembers(entries) ==
  IF entries = <<>> THEN <<>>
  ELSE LET m == <<Tok("str", entries[1][1]), COLON>> \o JsonStringify(entries[1][2])
       IN IF Len(entries) = 1 THEN m
          ELSE m \o <<COMMA>> \o StringifyMembers(Tail(entries))

ParseFail == [ok |-> FALSE, val |-> JNull, rest |-> <<>>]
ParseOk(v, rest) == [ok |-> TRUE, val |-> v, rest |-> rest]

\* Object property assignment during JSON.parse: a repeated key keeps its
\* position and takes the later value.
SetMember(entries, k, v) ==
  IF \E i \in 1..Len(entries) : entries[i][1] = k
  THEN [i \in 1..Len(entries) |-> IF entries[i][1] = k THEN <<k, v>> ELSE entries[i]]
  ELSE Append(entries, <<k, v>>)

RECURSIVE ParseValue(_)
RECURSIVE ParseItems(_, _)
RECURSIVE ParseMembers(_, _)

ParseValue(t) ==
  IF t = <<>> THEN ParseFail
  ELSE LET h == Head(t) IN
    CASE h[1] = "lit" -> ParseOk(IF h[2] = "null" THEN JNull ELSE JBool(h[2]), Tail(t))
      [] h[1] = "num" -> ParseOk(JNum(h[2]), Tail(t))
      [] h[1] = "str" -> ParseOk(JStr(h[2]), Tail(t))
      [] h = LB -> IF Len(t) > 1 /\ t[2] = RB THEN ParseOk(JArr(<<>>), Tail(Tail(t)))
                   ELSE ParseItems(Tail(t), <<>>)
      [] h = LC -> IF Len(t) > 1 /\ t[2] = RC THEN ParseOk(JObj(<<>>), Tail(Tail(t)))
                   ELSE ParseMembers(Tail(t), <<>>)
      [] OTHER -> ParseFail

ParseItems(t, acc) ==
  LET r == ParseValue(t) IN
  IF ~r.ok \/ r.rest = <<>> THEN ParseFail
  ELSE IF Head(r.rest) = RB THEN ParseOk(JArr(Append(acc, r.val)), Tail(r.rest))
  ELSE IF Head(r.rest) = COMMA THEN ParseItems(Tail(r.rest), Append(acc, r.val))
  ELSE ParseFail

ParseMembers(t, acc) ==
  IF Len(t) < 2 \/ t[1][1] # "str" \/ t[2] # COLON THEN ParseFail
  ELSE LET r == ParseValue(Tail(Tail(t))) IN
    IF ~r.ok \/ r.rest = <<>> THEN ParseFail
    ELSE IF Head(r.rest) = RC
         THEN ParseOk(JObj(SetMember(acc, t[1][2], r.val)), Tail(r.rest))
    ELSE IF Head(r.rest) = COMMA
         THEN ParseMembers(Tail(r.rest), SetMember(acc, t[1][2], r.val))
    ELSE ParseFail

\* JSON.parse(decoder.decode(bytes)): ok = FALSE stands for the SyntaxError.
JsonParse(bytes) ==
  LET r == ParseValue(bytes) IN
  IF r.ok /\ r.rest = <<>> THEN r ELSE ParseFail

(***************************************************************************)
(* The caller-supplied hash function.  The model uses the collision-free   *)
(* hash that returns the text of the block: hashFn = bytes => decode(bytes)*)
(***************************************************************************)
RenderTok(tok) ==
  IF tok[1] = "str" THEN "\"" \o tok[2] \o "\"" ELSE tok[2]

RECURSIVE RenderText(_)
RenderText(bytes) ==
  IF bytes = <<>> THEN "" ELSE RenderTok(Head(bytes)) \o RenderText(Tail(bytes))

hashFn(bytes) == RenderText(bytes)

(***************************************************************************)
(* State.                                                                  *)
(***************************************************************************)
VARIABLES
  adapter,       \* the block adapter's storage: hash -> bytes
  inflight,      \* adapter writes issued and not yet settled
  objectStore,   \* [hashToValue, primitiveHints, objectHints] of the instance
  versionCache,  \* hash -> StateVersion
  headMemo,      \* JNull or JStr(hash)
  boot,          \* progress of createStore's head initialisation
  calls,         \* the operations called on this instance, in call order
  log,           \* history: the versions returned by successful commits
  now,           \* the clock: the last value Date.now() returned
  nboots,        \* number of store instances constructed so far
  nfail,         \* number of adapter writes that have rejected
  layers         \* the storages of the cascade adapter's layers, fastest first

vars == <<adapter, inflight, objectStore, versionCache, headMemo, boot,
          calls, log, now, nboots, nfail, layers>>

HEAD_KEY == "__hstore_head__"

NoHash == ""
NoRef == <<0, "", <<>>>>

\* Identity of an array/object: the call that allocated it, the root it
\* was allocated under ("" for the frozen copy of a written value, the node
\* hash for a materialized value) and the path below that root.
Ref(c, root, path) == <<c, root, path>>

\* a value that freezeJson returned: `frozen` says that the value and every
\* array and object below it is frozen (a primitive always is)
Frozen(ref, v) ==
  [ref |-> IF isJsonPrimitive(v) THEN NoRef ELSE ref, val |-> v, frozen |-> TRUE]

\* the payload of a decoded node, as JSON.parse built it
Parsed(ref, v) == [Frozen(ref, v) EXCEPT !.frozen = isJsonPrimitive(v)]

EmptyMap == <<>>

Has(map, k) == k \in DOMAIN map

EmptyObjectStore ==
  [hashToValue |-> EmptyMap, primitiveHints |-> EmptyMap, objectHints |-> EmptyMap]

remember(os, hash, value) ==
  [hashToValue |-> (hash :> value) @@ os.hashToValue,
   primitiveHints |-> IF isJsonPrimitive(value.val)
                      THEN (value.val :> hash) @@ os.primitiveHints
                      ELSE os.primitiveHints,
   objectHints |-> IF isJsonPrimitive(value.val)
                   THEN os.objectHints
                   ELSE (value.ref :> hash) @@ os.objectHints]

hintFor(os, value) ==
  IF isJsonPrimitive(value.val)
  THEN IF Has(os.primitiveHints, value.val) THEN os.primitiveHints[value.val] ELSE NoHash
  ELSE IF Has(os.objectHints, value.ref) THEN os.objectHints[value.ref] ELSE NoHash

(***************************************************************************)
(* Values as trees: children, paths, sorting of object entries.            *)
(***************************************************************************)
NumChildren(v) == IF isJsonPrimitive(v) THEN 0 ELSE Len(v[2])

Child(v, i) == IF IsArray(v) THEN v[2][i] ELSE v[2][i][2]

RECURSIVE ValAt(_, _)
ValAt(v, path) ==
  IF path = <<>> THEN v ELSE ValAt(Child(v, Head(path)), Tail(path))

RECURSIVE Paths(_)
Paths(v) ==
  {<<>>} \cup UNION {{<<i>> \o p : p \in Paths(Child(v, i))} : i \in 1..NumChildren(v)}

\* the entries left in insertion order
sortObjectEntriesUnsorted(entries) == [i \in 1..Len(entries) |-> i]

\* sortObjectEntries: the positions of the entries in ascending key order
sortObjectEntries(entries) ==
  CHOOSE s \in [1..Len(entries) -> 1..Len(entries)] :
    /\ \A i, j \in 1..Len(entries) : i # j => s[i] # s[j]
    /\ \A i \in 1..(Len(entries) - 1) : KeyLess(entries[s[i]][1], entries[s[i + 1]][1])

\* the order in which writeFrozen visits the children of a node
ChildOrder(v) ==
  IF IsObject(v) THEN sortObjectEntries(v[2]) ELSE [i \in 1..NumChildren(v) |-> i]

\* freezeJson returns a new frozen array/object with the same content and
\* entry order (a primitive is returned as it is): c and root name the
\* allocation.
freezeJson(c, root, v) == Frozen(Ref(c, root, <<>>), v)

serializeHNode(node) == JsonStringify(node)

PrimitiveNode(v) == JArr(<<JNum("0"), v>>)
ArrayNode(childHashes) ==
  JArr(<<JNum("1"), JArr([i \in 1..Len(childHashes) |-> JStr(childHashes[i])])>>)
ObjectNode(hashedEntries) ==
  JArr(<<JNum("2"),
         JArr([i \in 1..Len(hashedEntries) |->
                 JArr(<<JStr(hashedEntries[i][1]), JStr(hashedEntries[i][2])>>)])>>)

(***************************************************************************)
(* The hasher (createHasher): hashValue computes the root hash of a value  *)
(* from its nodes without an adapter.  It orders the keys of an object     *)
(* with String.prototype.localeCompare.                                    *)
(***************************************************************************)
\* The keys used by the model in the order of localeCompare under the
\* default (root, en) collation: lower case before upper case of the same
\* letter, letters compared first: "" < "a" < "b" < "B".
LocaleOrder == <<"", "a", "b", "B", "head", "previous", "timestamp", "value">>

\* left.localeCompare(right) < 0
localeCompare(left, right) ==
  (CHOOSE i \in 1..Len(LocaleOrder) : LocaleOrder[i] = left)
    < (CHOOSE i \in 1..Len(LocaleOrder) : LocaleOrder[i] = right)

\* Object.keys(value).sort(localeCompare): the positions of the entries in
\* that order
createObjectNode(entries) ==
  CHOOSE s \in [1..Len(entries) -> 1..Len(entries)] :
    /\ \A i, j \in 1..Len(entries) : i # j => s[i] # s[j]
    /\ \A i \in 1..(Len(entries) - 1) :
          localeCompare(entries[s[i]][1], entries[s[i + 1]][1])

\* hasher.hashValue(value)
RECURSIVE hashValue(_)
hashValue(value) ==
  IF isJsonPrimitive(value) THEN hashFn(serializeHNode(PrimitiveNode(value)))
  ELSE IF IsArray(value)
       THEN hashFn(serializeHNode(
              ArrayNode([i \in 1..Len(value[2]) |-> hashValue(value[2][i])])))
  ELSE LET order == createObjectNode(value[2])
       IN hashFn(serializeHNode(
            ObjectNode([i \in 1..Len(order) |->
                          <<value[2][order[i]][1], hashValue(value[2][order[i]][2])>>])))

\* persistCompositeObject(value): the object node that persistJsonValue
\* stores for an object, its children hashed by the hasher
persistCompositeObject(value) ==
  LET order == createObjectNode(value[2])
  IN ObjectNode([i \in 1..Len(order) |->
                   <<value[2][order[i]][1], hashValue(value[2][order[i]][2])>>])

(***************************************************************************)
(* Calls.  Every operation called on the instance has a record in `calls`. *)
(* tasks maps each path of the written value to its writeFrozen            *)
(* invocation: "none" (not called), "kids" (awaiting child writes), "hash" *)
(* (awaiting hashFn), "write" (awaiting adapter.write), "done", "fail".    *)
(***************************************************************************)
NoVersion ==
  [hash |-> NoHash, value |-> Frozen(NoRef, JNull), previous |-> JNull,
   timestamp |-> JNum("0")]

NoOut == [st |-> "none", version |-> NoVersion]

\* An ObjectStore.read in progress: the frames of the nested read/materialize
\* invocations (the last one awaits adapter.read), and the outcome st:
\* "none", "blocked", "value", "undefined" or "throw".
ReadState(stack, st, value) == [stack |-> stack, st |-> st, value |-> value]

NoRead == ReadState(<<>>, "none", Frozen(NoRef, JNull))

\* issued, err and inst are history: the bag of <<kind, hash>> of the
\* adapter writes the call has issued (kind "n" node, "v" version, "h"
\* head), what made the call reject ("schema", "node", "version", "head",
\* "read"), and the instance the call was made on.
NewCall(kind, pc, arg) ==
  [kind |-> kind, pc |-> pc, arg |-> arg, val |-> JNull, tasks |-> EmptyMap,
   rd |-> NoRead, vh |-> NoHash, ver |-> NoVersion, out |-> NoOut,
   issued |-> EmptyMap, err |-> "", inst |-> nboots]

BagAdd(bag, e) == IF Has(bag, e) THEN [bag EXCEPT ![e] = @ + 1] ELSE (e :> 1) @@ bag

Task(st, h) == [st |-> st, h |-> h]

Write(c, slot, hash, bytes) ==
  [c |-> c, slot |-> slot, hash |-> hash, bytes |-> bytes, applied |-> FALSE]

NodeSlot(path) == <<"n", path>>

\* the in-flight adapter write issued by call c for `slot`
WriteOf(c, slot) == CHOOSE w \in inflight : w.c = c /\ w.slot = slot

Pending(c, slot) == \E w \in inflight : w.c = c /\ w.slot = slot

\* writeFrozen(value) up to its first await, for the sub-value at `path`
\* of the frozen value `val` of call c.
RECURSIVE Spawn(_, _, _, _, _)
RECURSIVE SpawnAll(_, _, _, _, _, _)

Spawn(os, c, val, tasks, path) ==
  LET v == ValAt(val, path)
      existing == hintFor(os, Frozen(Ref(c, "", path), v))
      order == ChildOrder(v)
  IN IF existing # NoHash THEN [tasks EXCEPT ![path] = Task("done", existing)]
     ELSE IF isJsonPrimitive(v) THEN [tasks EXCEPT ![path] = Task("hash", NoHash)]
     ELSE IF IsArray(v)
          THEN SpawnAll(os, c, val, [tasks EXCEPT ![path] = Task("kids", NoHash)], path, 1)
     ELSE IF order = <<>> THEN [tasks EXCEPT ![path] = Task("hash", NoHash)]
     ELSE Spawn(os, c, val, [tasks EXCEPT ![path] = Task("kids", NoHash)],
                path \o <<order[1]>>)

SpawnAll(os, c, val, tasks, path, i) ==
  IF i > NumChildren(ValAt(val, path)) THEN tasks
  ELSE SpawnAll(os, c, val, Spawn(os, c, val, tasks, path \o <<i>>), path, i + 1)

\* ObjectStore.write(value) up to its first await
StartWrite(os, c, value) ==
  Spawn(os, c, value, [p \in Paths(value) |-> Task("none", NoHash)], <<>>)

\* the node of the sub-value at `path`, composed from the child hashes
NodeAt(call, path) ==
  LET v == ValAt(call.val, path)
      order == ChildOrder(v)
  IN IF isJsonPrimitive(v) THEN PrimitiveNode(v)
     ELSE IF IsArray(v)
          THEN ArrayNode([i \in 1..Len(order) |-> call.tasks[path \o <<order[i]>>].h])
     ELSE ObjectNode([i \in 1..Len(order) |->
                        <<v[2][order[i]][1], call.tasks[path \o <<order[i]>>].h>>])

\* KidsResume that goes on as soon as one child write has settled
KidsResumeAny(c, path) ==
  /\ c \in DOMAIN calls /\ path \in DOMAIN calls[c].tasks
  /\ calls[c].tasks[path].st = "kids"
  /\ LET call == calls[c]
         v == ValAt(call.val, path)
         order == ChildOrder(v)
         st(i) == call.tasks[path \o <<order[i]>>].st
     IN /\ \E i \in 1..Len(order) : st(i) = "done"
        /\ calls' = [calls EXCEPT ![c].tasks[path] = Task("hash", NoHash)]
  /\ UNCHANGED <<adapter, inflight, objectStore, versionCache, headMemo, boot,
                 log, now, nboots, nfail, layers>>

\* The await on the child writes returns: Promise.all for an array, the
\* current entry's write for an object (which then calls the next one).
KidsResume(c, path) ==
  /\ c \in DOMAIN calls /\ path \in DOMAIN calls[c].tasks
  /\ calls[c].tasks[path].st = "kids"
  /\ LET call == calls[c]
         v == ValAt(call.val, path)
         order == ChildOrder(v)
         st(i) == call.tasks[path \o <<order[i]>>].st
         spawned == {i \in 1..Len(order) : st(i) # "none"}
         cur == IF spawned = {} THEN 0 ELSE CHOOSE i \in spawned : \A j \in spawned : j <= i
         settle(t) == calls' = [calls EXCEPT ![c].tasks[path] = t]
     IN IF IsArray(v)
        THEN \/ /\ \E i \in 1..Len(order) : st(i) = "fail"
                /\ settle(Task("fail", NoHash))
             \/ /\ \A i \in 1..Len(order) : st(i) = "done"
                /\ settle(Task("hash", NoHash))
        ELSE \/ /\ st(cur) = "fail"
                /\ settle(Task("fail", NoHash))
             \/ /\ st(cur) = "done" /\ cur = Len(order)
                /\ settle(Task("hash", NoHash))
             \/ /\ st(cur) = "done" /\ cur < Len(order)
                /\ calls' = [calls EXCEPT ![c].tasks =
                               Spawn(objectStore, c, call.val, call.tasks,
                                     path \o <<order[cur + 1]>>)]
  /\ UNCHANGED <<adapter, inflight, objectStore, versionCache, headMemo, boot,
                 log, now, nboots, nfail, layers>>

\* HashResume that remembers the node when its write is issued, not when it
\* is acknowledged
HashResumeEager(c, path) ==
  /\ c \in DOMAIN calls /\ path \in DOMAIN calls[c].tasks
  /\ calls[c].tasks[path].st = "hash"
  /\ LET call == calls[c]
         bytes == serializeHNode(NodeAt(call, path))
         hash == hashFn(bytes)
         value == Frozen(Ref(c, "", path), ValAt(call.val, path))
     IN /\ objectStore' = remember(objectStore, hash, value)
        /\ IF Has(objectStore.hashToValue, hash)
           THEN /\ calls' = [calls EXCEPT ![c].tasks[path] = Task("done", hash)]
                /\ UNCHANGED inflight
           ELSE /\ inflight' = inflight \cup {Write(c, NodeSlot(path), hash, bytes)}
                /\ calls' = [calls EXCEPT ![c].tasks[path] = Task("write", hash),
                                          ![c].issued = BagAdd(@, <<"n", hash>>)]
  /\ UNCHANGED <<adapter, versionCache, headMemo, boot, log, now, nboots, nfail, layers>>

\* HashResume that writes the block whether or not hashToValue has the hash
HashResumeAlways(c, path) ==
  /\ c \in DOMAIN calls /\ path \in DOMAIN calls[c].tasks
  /\ calls[c].tasks[path].st = "hash"
  /\ LET call == calls[c]
         bytes == serializeHNode(NodeAt(call, path))
         hash == hashFn(bytes)
     IN /\ inflight' = inflight \cup {Write(c, NodeSlot(path), hash, bytes)}
        /\ calls' = [calls EXCEPT ![c].tasks[path] = Task("write", hash),
                                  ![c].issued = BagAdd(@, <<"n", hash>>)]
        /\ UNCHANGED objectStore
  /\ UNCHANGED <<adapter, versionCache, headMemo, boot, log, now, nboots, nfail, layers>>

\* hashFn returns: skip the write when hashToValue has the hash, else issue it
HashResume(c, path) ==
  /\ c \in DOMAIN calls /\ path \in DOMAIN calls[c].tasks
  /\ calls[c].tasks[path].st = "hash"
  /\ LET call == calls[c]
         bytes == serializeHNode(NodeAt(call, path))
         hash == hashFn(bytes)
         value == Frozen(Ref(c, "", path), ValAt(call.val, path))
     IN IF Has(objectStore.hashToValue, hash)
        THEN /\ objectStore' = remember(objectStore, hash, value)
             /\ calls' = [calls EXCEPT ![c].tasks[path] = Task("done", hash)]
             /\ UNCHANGED inflight
        ELSE /\ inflight' = inflight \cup {Write(c, NodeSlot(path), hash, bytes)}
             /\ calls' = [calls EXCEPT ![c].tasks[path] = Task("write", hash),
                                       ![c].issued = BagAdd(@, <<"n", hash>>)]
             /\ UNCHANGED objectStore
  /\ UNCHANGED <<adapter, versionCache, headMemo, boot, log, now, nboots, nfail, layers>>

\* adapter.write of a node block is acknowledged
WriteAck(c, path) ==
  /\ c \in DOMAIN calls /\ path \in DOMAIN calls[c].tasks
  /\ calls[c].tasks[path].st = "write"
  /\ Pending(c, NodeSlot(path)) /\ WriteOf(c, NodeSlot(path)).applied
  /\ LET w == WriteOf(c, NodeSlot(path))
         value == Frozen(Ref(c, "", path), ValAt(calls[c].val, path))
     IN /\ inflight' = inflight \ {w}
        /\ objectStore' = remember(objectStore, w.hash, value)
        /\ calls' = [calls EXCEPT ![c].tasks[path] = Task("done", w.hash)]
  /\ UNCHANGED <<adapter, versionCache, headMemo, boot, log, now, nboots, nfail, layers>>

\* adapter.write of a node block rejects
WriteFail(c, path) ==
  /\ c \in DOMAIN calls /\ path \in DOMAIN calls[c].tasks
  /\ calls[c].tasks[path].st = "write"
  /\ Pending(c, NodeSlot(path)) /\ ~WriteOf(c, NodeSlot(path)).applied
  /\ nfail < MaxFailures /\ nfail' = nfail + 1
  /\ inflight' = inflight \ {WriteOf(c, NodeSlot(path))}
  /\ calls' = [calls EXCEPT ![c].tasks[path] = Task("fail", NoHash)]
  /\ UNCHANGED <<adapter, objectStore, versionCache, headMemo, boot, log, now, nboots, layers>>

\* The adapter stores the block of an issued write.
AdapterApply(w) ==
  /\ w \in inflight /\ ~w.applied
  /\ adapter' = (w.hash :> w.bytes) @@ adapter
  /\ inflight' = (inflight \ {w}) \cup {[w EXCEPT !.applied = TRUE]}
  /\ UNCHANGED <<objectStore, versionCache, headMemo, boot, calls, log, now, nboots, nfail, layers>>

(***************************************************************************)
(* ObjectStore.read and materialize.                                       *)
(***************************************************************************)
Frame(hash, kind, kids, got) == [hash |-> hash, kind |-> kind, kids |-> kids, got |-> got]

PendingFrame(hash) == Frame(hash, "pending", <<>>, <<>>)

deserializeHNode(bytes) == JsonParse(bytes)

IsStr(v) == v[1] = "str"

\* How materialize treats a decoded node: tag 0 returns the payload (which
\* is undefined for the one-element array [0]), tag 1 iterates child
\* hashes, any other tag iterates [key, hash] entries.  A node that cannot
\* be destructured or iterated that way raises TypeError.
NodeKind(node) ==
  IF ~IsArray(node) \/ Len(node[2]) = 0 THEN "bad"
  ELSE IF Len(node[2]) = 1 THEN (IF node[2][1] = JNum("0") THEN "undef" ELSE "bad")
  ELSE LET tag == node[2][1]
           payload == node[2][2]
       IN IF tag = JNum("0") THEN "prim"
          ELSE IF ~IsArray(payload) THEN "bad"
          ELSE IF tag = JNum("1")
               THEN IF \A i \in 1..Len(payload[2]) : IsStr(payload[2][i]) THEN "arr" ELSE "bad"
          ELSE IF \A i \in 1..Len(payload[2]) :
                    /\ IsArray(payload[2][i]) /\ Len(payload[2][i][2]) >= 2
                    /\ IsStr(payload[2][i][2][1]) /\ IsStr(payload[2][i][2][2])
               THEN "obj" ELSE "bad"

\* the <<key, child hash>> pairs of an array or object node (key "" for arrays)
NodeKids(node) ==
  LET payload == node[2][2][2]
  IN IF NodeKind(node) = "arr"
     THEN [i \in 1..Len(payload) |-> <<"", payload[i][2]>>]
     ELSE [i \in 1..Len(payload) |-> <<payload[i][2][1][2], payload[i][2][2][2]>>]

RECURSIVE fromEntries(_, _)
\* Object.fromEntries(pairs)
fromEntries(pairs, acc) ==
  IF pairs = <<>> THEN acc
  ELSE fromEntries(Tail(pairs), SetMember(acc, pairs[1][1], pairs[1][2]))

\* FrameValue with the children of an array collected by unshift
FrameValueUnshift(f) ==
  IF f.kind = "arr" THEN JArr([i \in 1..Len(f.got) |-> f.got[Len(f.got) + 1 - i]])
  ELSE JObj(fromEntries([i \in 1..Len(f.kids) |-> <<f.kids[i][1], f.got[i]>>], <<>>))

\* the value materialize builds once every child of the frame is read
FrameValue(f) ==
  IF f.kind = "arr" THEN JArr(f.got)
  ELSE JObj(fromEntries([i \in 1..Len(f.kids) |-> <<f.kids[i][1], f.got[i]>>], <<>>))

ReadResult(os, rd) == [os |-> os, rd |-> rd]

RECURSIVE Deliver(_, _, _, _)
RECURSIVE Advance(_, _, _)

\* read(hash) of the innermost frame returned `value` to the materialize
\* loop of the frame below it (or to the caller of the outermost read).
Deliver(os, c, stack, value) ==
  IF stack = <<>> THEN ReadResult(os, ReadState(<<>>, "value", value))
  ELSE LET top == stack[Len(stack)]
           top2 == [top EXCEPT !.got = Append(top.got, value.val)]
       IN Advance(os, c, [stack EXCEPT ![Len(stack)] = top2])

\* the materialize loop of the innermost frame runs to its next adapter read
Advance(os, c, stack) ==
  LET top == stack[Len(stack)]
      n == Len(top.got)
  IN IF n = Len(top.kids)
     THEN LET value == freezeJson(c, top.hash, FrameValue(top))
          IN Deliver(remember(os, top.hash, value), c, SubSeq(stack, 1, Len(stack) - 1), value)
     ELSE LET childHash == top.kids[n + 1][2]
          IN IF Has(os.hashToValue, childHash)
             THEN Deliver(os, c, stack, os.hashToValue[childHash])
             ELSE ReadResult(os, ReadState(Append(stack, PendingFrame(childHash)), "blocked",
                                           Frozen(NoRef, JNull)))

\* ObjectStore.read(hash) up to its first await
StartRead(os, hash) ==
  IF Has(os.hashToValue, hash)
  THEN ReadState(<<>>, "value", os.hashToValue[hash])
  ELSE ReadState(<<PendingFrame(hash)>>, "blocked", Frozen(NoRef, JNull))

\* ContinueRead in which materialize takes a child without a block for null
ContinueReadLenient(os, store, c, stack) ==
  LET top == stack[Len(stack)]
      below == SubSeq(stack, 1, Len(stack) - 1)
      dead(st) == ReadResult(os, ReadState(<<>>, st, Frozen(NoRef, JNull)))
  IN IF ~Has(store, top.hash)
     THEN IF below = <<>> THEN dead("undefined")
          ELSE Deliver(os, c, below, Frozen(NoRef, JNull))
     ELSE LET parsed == deserializeHNode(store[top.hash])
              node == parsed.val
          IN IF ~parsed.ok \/ NodeKind(node) = "bad" THEN dead("throw")
             ELSE IF NodeKind(node) = "undef" THEN dead("undefined")
             ELSE IF NodeKind(node) = "prim"
                  THEN LET value == Parsed(Ref(c, top.hash, <<>>), node[2][2])
                       IN Deliver(remember(os, top.hash, value), c, below, value)
             ELSE Advance(os, c, Append(below,
                                        Frame(top.hash, NodeKind(node), NodeKids(node), <<>>)))

\* adapter.read of the innermost frame returns (store is the adapter's
\* content): the read runs on to its next adapter read or to its end.
ContinueRead(os, store, c, stack) ==
  LET top == stack[Len(stack)]
      below == SubSeq(stack, 1, Len(stack) - 1)
      dead(st) == ReadResult(os, ReadState(<<>>, st, Frozen(NoRef, JNull)))
  IN IF ~Has(store, top.hash) THEN dead("undefined")
     ELSE LET parsed == deserializeHNode(store[top.hash])
              node == parsed.val
          IN IF ~parsed.ok \/ NodeKind(node) = "bad" THEN dead("throw")
             ELSE IF NodeKind(node) = "undef" THEN dead("undefined")
             ELSE IF NodeKind(node) = "prim"
                  THEN LET value == Parsed(Ref(c, top.hash, <<>>), node[2][2])
                       IN Deliver(remember(os, top.hash, value), c, below, value)
             ELSE Advance(os, c, Append(below,
                                        Frame(top.hash, NodeKind(node), NodeKids(node), <<>>)))

\* adapter.read issued by the ObjectStore.read of call c returns
ReadResume(c) ==
  /\ c \in DOMAIN calls /\ calls[c].rd.st = "blocked"
  /\ LET r == ContinueRead(objectStore, adapter, c, calls[c].rd.stack)
     IN /\ objectStore' = r.os
        /\ calls' = [calls EXCEPT ![c].rd = r.rd]
  /\ UNCHANGED <<adapter, inflight, versionCache, headMemo, boot, log, now, nboots, nfail, layers>>

(***************************************************************************)
(* The version store: encoding of version blocks and of the head record.   *)
(***************************************************************************)
Undefined == <<"undefined">>

\* record[key] of a decoded JSON value (Undefined when it has no such
\* property)
Prop(value, key) ==
  IF IsObject(value) /\ \E i \in 1..Len(value[2]) : value[2][i][1] = key
  THEN value[2][CHOOSE i \in 1..Len(value[2]) : value[2][i][1] = key][2]
  ELSE Undefined

Version(hash, value, previous, timestamp) ==
  [hash |-> hash, value |-> value, previous |-> previous, timestamp |-> timestamp]

\* the VersionBlock object literal built by commit
VersionBlock(ver, valueHash) ==
  JObj(<< <<"value", JStr(valueHash)>>, <<"previous", ver.previous>>,
          <<"timestamp", ver.timestamp>> >>)

encodeVersionBlock(block) == JsonStringify(block)

decodeVersionBlock(bytes) == JsonParse(bytes)

encodeHead(hash) == JsonStringify(JObj(<< <<"head", hash>> >>))

\* decodeHead without the check that `head` is a string
decodeHeadUnchecked(bytes) ==
  LET data == JsonParse(bytes)
  IN IF data.ok /\ IsObject(data.val) THEN Prop(data.val, "head") ELSE JNull

decodeHead(bytes) ==
  LET data == JsonParse(bytes)
  IN IF data.ok /\ IsObject(data.val) /\ IsStr(Prop(data.val, "head"))
     THEN Prop(data.val, "head") ELSE JNull

isVersionBlock(value) ==
  /\ value[1] \in {"obj", "arr"}
  /\ Prop(value, "timestamp")[1] = "num"
  /\ Prop(value, "previous")[1] \in {"str", "null"}
  /\ Prop(value, "value")[1] = "str"

\* rememberVersion that caches a copy of the value
rememberVersionCopy(cache, version) ==
  (version.hash :> [version EXCEPT !.value.ref = Ref(0, "copy", <<>>)]) @@ cache

rememberVersion(cache, version) == (version.hash :> version) @@ cache

\* `headMemo ?` : null and the empty string are falsy
Truthy(h) == IsStr(h) /\ h[2] # ""

(***************************************************************************)
(* createStore: the head initialisation.                                   *)
(***************************************************************************)
BootSlot == <<"boot">>

\* BootRead that leaves an absent head record absent
BootReadSilent ==
  /\ boot = "read"
  /\ IF Has(adapter, HEAD_KEY) /\ decodeHead(adapter[HEAD_KEY]) # JNull
     THEN headMemo' = decodeHead(adapter[HEAD_KEY])
     ELSE headMemo' = JNull
  /\ boot' = "ready"
  /\ UNCHANGED <<adapter, inflight, objectStore, versionCache, calls, log, now, nboots, nfail, layers>>

\* BootRead that takes every head record for an unusable one
BootReadFresh ==
  /\ boot = "read"
  /\ inflight' = inflight \cup {Write(0, BootSlot, HEAD_KEY, encodeHead(JNull))}
  /\ boot' = "write"
  /\ UNCHANGED <<adapter, objectStore, versionCache, headMemo, calls, log, now, nboots, nfail, layers>>

\* adapter.read(HEAD_KEY) returns
BootRead ==
  /\ boot = "read"
  /\ LET decoded == IF Has(adapter, HEAD_KEY) THEN decodeHead(adapter[HEAD_KEY]) ELSE JNull
     IN IF decoded = JNull
        THEN /\ inflight' = inflight \cup {Write(0, BootSlot, HEAD_KEY, encodeHead(JNull))}
             /\ boot' = "write"
             /\ UNCHANGED headMemo
        ELSE /\ headMemo' = decoded
             /\ boot' = "ready"
             /\ UNCHANGED inflight
  /\ UNCHANGED <<adapter, objectStore, versionCache, calls, log, now, nboots, nfail, layers>>

\* the write of {head: null} is acknowledged: createStore returns the store
BootWriteAck ==
  /\ boot = "write" /\ Pending(0, BootSlot) /\ WriteOf(0, BootSlot).applied
  /\ inflight' = inflight \ {WriteOf(0, BootSlot)}
  /\ headMemo' = JNull
  /\ boot' = "ready"
  /\ UNCHANGED <<adapter, objectStore, versionCache, calls, log, now, nboots, nfail, layers>>

\* the write of {head: null} rejects: createStore rejects
BootWriteFail ==
  /\ boot = "write" /\ Pending(0, BootSlot) /\ ~WriteOf(0, BootSlot).applied
  /\ nfail < MaxFailures /\ nfail' = nfail + 1
  /\ inflight' = inflight \ {WriteOf(0, BootSlot)}
  /\ boot' = "failed"
  /\ UNCHANGED <<adapter, objectStore, versionCache, headMemo, calls, log, now, nboots, layers>>

(***************************************************************************)
(* The schema and the inputs of commit.  The schema is                     *)
(*   z.object({ a: z.array(z.string()), B: z.number().optional() })        *)
(* which rejects an input without a string array `a`, drops unknown keys   *)
(* and returns a new object with the keys in the order of its shape.       *)
(***************************************************************************)
InputDup == JObj(<< <<"a", JArr(<<JStr("hi"), JStr("hi")>>)>> >>)
InputExtra == JObj(<< <<"b", JNum("1")>>, <<"B", JNum("1")>>, <<"a", JArr(<<>>)>> >>)
InputInvalid == JObj(<< <<"a", JNum("1")>> >>)

ValidInputs == {InputDup, InputExtra}
Inputs == ValidInputs \cup {InputInvalid}

SchemaParse(input) ==
  LET a == Prop(input, "a")
      b == Prop(input, "B")
      valid == /\ IsObject(input)
               /\ IsArray(a) /\ \A i \in 1..Len(a[2]) : IsStr(a[2][i])
               /\ b = Undefined \/ b[1] = "num"
  IN IF ~valid THEN ParseFail
     ELSE ParseOk(JObj(<< <<"a", a>> >> \o (IF b = Undefined THEN <<>> ELSE << <<"B", b>> >>)),
                  <<>>)

(***************************************************************************)
(* commit                                                                  *)
(***************************************************************************)
Settled(call) == call.pc \in {"done", "failed"}

\* the store has been returned by createStore and no operation is pending
Idle == boot = "ready" /\ \A c \in DOMAIN calls : Settled(calls[c])

NumCalls(kinds) == Cardinality({c \in DOMAIN calls : calls[c].kind \in kinds})

Rejected(call, err) ==
  [call EXCEPT !.pc = "failed", !.err = err,
               !.out = [st |-> "throw", version |-> NoVersion]]

Others ==
  <<adapter, inflight, objectStore, versionCache, headMemo, boot, log, now, nboots, nfail,
    layers>>

\* commit(input) is called: schema.parseAsync(input) is awaited
CommitCall(input) ==
  /\ Idle /\ NumCalls({"commit"}) < MaxCommits
  /\ calls' = Append(calls, NewCall("commit", "parse", input))
  /\ UNCHANGED Others

\* CommitParsed that persists the input when the schema rejects it
CommitParsedLenient(c) ==
  /\ c \in DOMAIN calls /\ calls[c].kind = "commit" /\ calls[c].pc = "parse"
  /\ LET parsed == SchemaParse(calls[c].arg)
         value == IF parsed.ok THEN parsed.val ELSE calls[c].arg
     IN calls' = [calls EXCEPT ![c] =
          [@ EXCEPT !.pc = "write", !.val = value,
                    !.tasks = StartWrite(objectStore, c, value)]]
  /\ UNCHANGED Others

\* CommitParsed that persists the input the caller passed once the schema
\* has accepted it
CommitParsedRaw(c) ==
  /\ c \in DOMAIN calls /\ calls[c].kind = "commit" /\ calls[c].pc = "parse"
  /\ LET parsed == SchemaParse(calls[c].arg)
     IN calls' = [calls EXCEPT ![c] =
          IF ~parsed.ok THEN Rejected(@, "schema")
          ELSE [@ EXCEPT !.pc = "write", !.val = calls[c].arg,
                         !.tasks = StartWrite(objectStore, c, calls[c].arg)]]
  /\ UNCHANGED Others

\* the schema settles; on success objectStore.write(parsed) is called
CommitParsed(c) ==
  /\ c \in DOMAIN calls /\ calls[c].kind = "commit" /\ calls[c].pc = "parse"
  /\ LET parsed == SchemaParse(calls[c].arg)
     IN calls' = [calls EXCEPT ![c] =
          IF ~parsed.ok THEN Rejected(@, "schema")
          ELSE [@ EXCEPT !.pc = "write", !.val = parsed.val,
                         !.tasks = StartWrite(objectStore, c, parsed.val)]]
  /\ UNCHANGED Others

\* objectStore.write settles; on success objectStore.read(valueHash) is called
CommitWritten(c) ==
  /\ c \in DOMAIN calls /\ calls[c].kind = "commit" /\ calls[c].pc = "write"
  /\ calls[c].tasks[<<>>].st \in {"done", "fail"}
  /\ LET root == calls[c].tasks[<<>>]
     IN calls' = [calls EXCEPT ![c] =
          IF root.st = "fail" THEN Rejected(@, "node")
          ELSE [@ EXCEPT !.pc = "read", !.vh = root.h,
                         !.rd = StartRead(objectStore, root.h)]]
  /\ UNCHANGED Others

\* CommitRead with the version block never linked to the head
CommitReadUnlinked(c) ==
  /\ c \in DOMAIN calls /\ calls[c].kind = "commit" /\ calls[c].pc = "read"
  /\ calls[c].rd.st \in {"value", "undefined", "throw"}
  /\ \E t \in now..MaxTime : now' = t
  /\ LET call == calls[c]
         frozenValue == IF call.rd.st = "value" THEN call.rd.value
                        ELSE freezeJson(c, "parsed", call.val)
     IN calls' = [calls EXCEPT ![c] =
          IF call.rd.st = "throw" THEN Rejected(@, "read")
          ELSE [@ EXCEPT !.pc = "vhash",
                         !.ver = Version(NoHash, frozenValue, JNull, JNum(ToString(now')))]]
  /\ UNCHANGED <<adapter, inflight, objectStore, versionCache, headMemo, boot, log,
                 nboots, nfail, layers>>

\* objectStore.read settles: the version block is composed with the current
\* headMemo and Date.now() (which never runs backwards), and hashFn is
\* awaited
CommitRead(c) ==
  /\ c \in DOMAIN calls /\ calls[c].kind = "commit" /\ calls[c].pc = "read"
  /\ calls[c].rd.st \in {"value", "undefined", "throw"}
  /\ \E t \in now..MaxTime : now' = t
  /\ LET call == calls[c]
         frozenValue == IF call.rd.st = "value" THEN call.rd.value
                        ELSE freezeJson(c, "parsed", call.val)
     IN calls' = [calls EXCEPT ![c] =
          IF call.rd.st = "throw" THEN Rejected(@, "read")
          ELSE [@ EXCEPT !.pc = "vhash",
                         !.ver = Version(NoHash, frozenValue, headMemo, JNum(ToString(now')))]]
  /\ UNCHANGED <<adapter, inflight, objectStore, versionCache, headMemo, boot, log,
                 nboots, nfail, layers>>

\* CommitVersionHashed that remembers the version when it issues the write
CommitVersionHashedEager(c) ==
  /\ c \in DOMAIN calls /\ calls[c].kind = "commit" /\ calls[c].pc = "vhash"
  /\ LET call == calls[c]
         bytes == encodeVersionBlock(VersionBlock(call.ver, call.vh))
         hash == hashFn(bytes)
         version == [call.ver EXCEPT !.hash = hash]
     IN /\ versionCache' = rememberVersion(versionCache, version)
        /\ IF Has(versionCache, hash)
           THEN /\ calls' = [calls EXCEPT ![c].pc = "vdone", ![c].ver = version]
                /\ UNCHANGED inflight
           ELSE /\ inflight' = inflight \cup {Write(c, <<"v">>, hash, bytes)}
                /\ calls' = [calls EXCEPT ![c].pc = "vwrite", ![c].ver = version,
                                          ![c].issued = BagAdd(@, <<"v", hash>>)]
  /\ UNCHANGED <<adapter, objectStore, headMemo, boot, log, now, nboots, nfail, layers>>

\* writeVersion: hashFn returns; the block is written unless versionCache
\* has the hash
CommitVersionHashed(c) ==
  /\ c \in DOMAIN calls /\ calls[c].kind = "commit" /\ calls[c].pc = "vhash"
  /\ LET call == calls[c]
         bytes == encodeVersionBlock(VersionBlock(call.ver, call.vh))
         hash == hashFn(bytes)
         version == [call.ver EXCEPT !.hash = hash]
     IN IF Has(versionCache, hash)
        THEN /\ versionCache' = rememberVersion(versionCache, version)
             /\ calls' = [calls EXCEPT ![c].pc = "vdone", ![c].ver = version]
             /\ UNCHANGED inflight
        ELSE /\ inflight' = inflight \cup {Write(c, <<"v">>, hash, bytes)}
             /\ calls' = [calls EXCEPT ![c].pc = "vwrite", ![c].ver = version,
                                       ![c].issued = BagAdd(@, <<"v", hash>>)]
             /\ UNCHANGED versionCache
  /\ UNCHANGED <<adapter, objectStore, headMemo, boot, log, now, nboots, nfail, layers>>

\* writeVersion: the write of the version block is acknowledged
CommitVersionAck(c) ==
  /\ c \in DOMAIN calls /\ calls[c].kind = "commit" /\ calls[c].pc = "vwrite"
  /\ Pending(c, <<"v">>) /\ WriteOf(c, <<"v">>).applied
  /\ inflight' = inflight \ {WriteOf(c, <<"v">>)}
  /\ versionCache' = rememberVersion(versionCache, calls[c].ver)
  /\ calls' = [calls EXCEPT ![c].pc = "vdone"]
  /\ UNCHANGED <<adapter, objectStore, headMemo, boot, log, now, nboots, nfail, layers>>

\* CommitVersionFail with the rejection swallowed: commit goes on to
\* persistHead
CommitVersionFailSwallowed(c) ==
  /\ c \in DOMAIN calls /\ calls[c].kind = "commit" /\ calls[c].pc = "vwrite"
  /\ Pending(c, <<"v">>) /\ ~WriteOf(c, <<"v">>).applied
  /\ nfail < MaxFailures /\ nfail' = nfail + 1
  /\ inflight' = inflight \ {WriteOf(c, <<"v">>)}
  /\ calls' = [calls EXCEPT ![c].pc = "vdone", ![c].err = "version"]
  /\ UNCHANGED <<adapter, objectStore, versionCache, headMemo, boot, log, now, nboots, layers>>

\* writeVersion: the write of the version block rejects
CommitVersionFail(c) ==
  /\ c \in DOMAIN calls /\ calls[c].kind = "commit" /\ calls[c].pc = "vwrite"
  /\ Pending(c, <<"v">>) /\ ~WriteOf(c, <<"v">>).applied
  /\ nfail < MaxFailures /\ nfail' = nfail + 1
  /\ inflight' = inflight \ {WriteOf(c, <<"v">>)}
  /\ calls' = [calls EXCEPT ![c] = Rejected(@, "version")]
  /\ UNCHANGED <<adapter, objectStore, versionCache, headMemo, boot, log, now, nboots, layers>>

\* persistHead called without awaiting writeVersion's adapter write
persistHeadEarly(c) ==
  /\ c \in DOMAIN calls /\ calls[c].kind = "commit" /\ calls[c].pc \in {"vwrite", "vdone"}
  /\ inflight' = inflight \cup
        {Write(c, <<"h">>, HEAD_KEY, encodeHead(JStr(calls[c].ver.hash)))}
  /\ calls' = [calls EXCEPT ![c].pc = "hwrite",
                            ![c].issued = BagAdd(@, <<"h", HEAD_KEY>>)]
  /\ UNCHANGED <<adapter, objectStore, versionCache, headMemo, boot, log, now, nboots, nfail, layers>>

\* persistHead(version.hash) is called: the head record write is issued
persistHead(c) ==
  /\ c \in DOMAIN calls /\ calls[c].kind = "commit" /\ calls[c].pc = "vdone"
  /\ inflight' = inflight \cup
        {Write(c, <<"h">>, HEAD_KEY, encodeHead(JStr(calls[c].ver.hash)))}
  /\ calls' = [calls EXCEPT ![c].pc = "hwrite",
                            ![c].issued = BagAdd(@, <<"h", HEAD_KEY>>)]
  /\ UNCHANGED <<adapter, objectStore, versionCache, headMemo, boot, log, now, nboots, nfail, layers>>

\* PersistHeadAck that leaves headMemo as it was
PersistHeadAckStale(c) ==
  /\ c \in DOMAIN calls /\ calls[c].kind = "commit" /\ calls[c].pc = "hwrite"
  /\ Pending(c, <<"h">>) /\ WriteOf(c, <<"h">>).applied
  /\ inflight' = inflight \ {WriteOf(c, <<"h">>)}
  /\ calls' = [calls EXCEPT ![c].pc = "hdone"]
  /\ UNCHANGED <<adapter, objectStore, versionCache, headMemo, boot, log, now, nboots, nfail, layers>>

\* persistHead: the head record write is acknowledged, headMemo is set
PersistHeadAck(c) ==
  /\ c \in DOMAIN calls /\ calls[c].kind = "commit" /\ calls[c].pc = "hwrite"
  /\ Pending(c, <<"h">>) /\ WriteOf(c, <<"h">>).applied
  /\ inflight' = inflight \ {WriteOf(c, <<"h">>)}
  /\ headMemo' = JStr(calls[c].ver.hash)
  /\ calls' = [calls EXCEPT ![c].pc = "hdone"]
  /\ UNCHANGED <<adapter, objectStore, versionCache, boot, log, now, nboots, nfail, layers>>

\* persistHead: the head record write rejects
PersistHeadFail(c) ==
  /\ c \in DOMAIN calls /\ calls[c].kind = "commit" /\ calls[c].pc = "hwrite"
  /\ Pending(c, <<"h">>) /\ ~WriteOf(c, <<"h">>).applied
  /\ nfail < MaxFailures /\ nfail' = nfail + 1
  /\ inflight' = inflight \ {WriteOf(c, <<"h">>)}
  /\ calls' = [calls EXCEPT ![c] = Rejected(@, "head")]
  /\ UNCHANGED <<adapter, objectStore, versionCache, headMemo, boot, log, now, nboots, layers>>

\* commit returns the version
CommitReturn(c) ==
  /\ c \in DOMAIN calls /\ calls[c].kind = "commit" /\ calls[c].pc = "hdone"
  /\ calls' = [calls EXCEPT ![c].pc = "done",
                            ![c].out = [st |-> "value", version |-> calls[c].ver]]
  /\ log' = Append(log, [c |-> c, version |-> calls[c].ver, valueHash |-> calls[c].vh,
                         input |-> calls[c].arg, parsed |-> calls[c].val])
  /\ UNCHANGED <<adapter, inflight, objectStore, versionCache, headMemo, boot, now, nboots, nfail, layers>>

(***************************************************************************)
(* head, get and loadVersion                                               *)
(***************************************************************************)
Resolved(call, st, version) ==
  [call EXCEPT !.pc = "done", !.out = [st |-> st, version |-> version]]

\* loadVersion(hash) up to its first await
StartLoad(kind, hash) ==
  IF Has(versionCache, hash[2])
  THEN Resolved(NewCall(kind, "done", hash), "value", versionCache[hash[2]])
  ELSE NewCall(kind, "vread", hash)

\* head() is called
HeadCall ==
  /\ Idle /\ NumCalls({"head", "get"}) < MaxQueries
  /\ calls' = Append(calls,
        IF Truthy(headMemo) THEN StartLoad("head", headMemo)
        ELSE Resolved(NewCall("head", "done", headMemo), "null", NoVersion))
  /\ UNCHANGED Others

\* the hashes a caller asks for: those returned by its commits and an
\* unknown one
Wanted == {log[i].version.hash : i \in DOMAIN log} \cup {"missing"}

\* GetCall that answers the key of the head record with the head version
GetCallAlias(hash) ==
  /\ Idle /\ NumCalls({"head", "get"}) < MaxQueries
  /\ calls' = Append(calls,
        IF hash = HEAD_KEY /\ Truthy(headMemo)
        THEN [StartLoad("get", headMemo) EXCEPT !.arg = JStr(hash)]
        ELSE StartLoad("get", JStr(hash)))
  /\ UNCHANGED Others

\* get(hash) is called
GetCall(hash) ==
  /\ Idle /\ NumCalls({"head", "get"}) < MaxQueries
  /\ calls' = Append(calls, StartLoad("get", JStr(hash)))
  /\ UNCHANGED Others

\* LoadVersionBlock that repairs the head: a head whose version block is
\* absent is forgotten
LoadVersionBlockRepair(c) ==
  /\ c \in DOMAIN calls /\ calls[c].pc = "vread"
  /\ ~Has(adapter, calls[c].arg[2])
  /\ calls' = [calls EXCEPT ![c] = Resolved(@, "null", NoVersion)]
  /\ headMemo' = IF calls[c].kind = "head" THEN JNull ELSE headMemo
  /\ UNCHANGED <<adapter, inflight, objectStore, versionCache, boot, log, now, nboots, nfail,
                 layers>>

\* loadVersion: adapter.read(hash) returns; a well-formed version block makes
\* it call objectStore.read(parsed.value)
LoadVersionBlock(c) ==
  /\ c \in DOMAIN calls /\ calls[c].pc = "vread"
  /\ LET call == calls[c]
         hash == call.arg[2]
         parsed == decodeVersionBlock(adapter[hash])
     IN calls' = [calls EXCEPT ![c] =
          IF ~Has(adapter, hash) THEN Resolved(@, "null", NoVersion)
          ELSE IF ~parsed.ok THEN Rejected(@, "read")
          ELSE IF ~isVersionBlock(parsed.val) THEN Resolved(@, "null", NoVersion)
          ELSE [@ EXCEPT !.pc = "oread",
                         !.vh = Prop(parsed.val, "value")[2],
                         !.ver = Version(hash, Frozen(NoRef, JNull),
                                         Prop(parsed.val, "previous"),
                                         Prop(parsed.val, "timestamp")),
                         !.rd = StartRead(objectStore, Prop(parsed.val, "value")[2])]]
  /\ UNCHANGED Others

\* LoadVersionValue that rejects when the value cannot be read
LoadVersionValueStrict(c) ==
  /\ c \in DOMAIN calls /\ calls[c].pc = "oread"
  /\ calls[c].rd.st \in {"value", "undefined", "throw"}
  /\ LET call == calls[c]
         version == [call.ver EXCEPT !.value = call.rd.value]
     IN IF call.rd.st = "value"
        THEN /\ versionCache' = rememberVersion(versionCache, version)
             /\ calls' = [calls EXCEPT ![c] = Resolved(@, "value", version)]
        ELSE /\ calls' = [calls EXCEPT ![c] = Rejected(@, "read")]
             /\ UNCHANGED versionCache
  /\ UNCHANGED <<adapter, inflight, objectStore, headMemo, boot, log, now, nboots, nfail, layers>>

\* loadVersion: objectStore.read settles
LoadVersionValue(c) ==
  /\ c \in DOMAIN calls /\ calls[c].pc = "oread"
  /\ calls[c].rd.st \in {"value", "undefined", "throw"}
  /\ LET call == calls[c]
         version == [call.ver EXCEPT !.value = call.rd.value]
     IN IF call.rd.st = "value"
        THEN /\ versionCache' = rememberVersion(versionCache, version)
             /\ calls' = [calls EXCEPT ![c] = Resolved(@, "value", version)]
        ELSE /\ calls' = [calls EXCEPT ![c] =
                  IF call.rd.st = "throw" THEN Rejected(@, "read")
                  ELSE Resolved(@, "null", NoVersion)]
             /\ UNCHANGED versionCache
  /\ UNCHANGED <<adapter, inflight, objectStore, headMemo, boot, log, now, nboots, nfail, layers>>

(***************************************************************************)
(* The environment: a crash of the process followed by the construction   *)
(* of a new store over the same adapter.  The history `log` outlives the   *)
(* instance: its entries get c = 0, "a commit of an earlier instance".     *)
(***************************************************************************)
Restart ==
  /\ nboots < MaxBoots
  /\ nboots' = nboots + 1
  /\ inflight' = {}
  /\ objectStore' = EmptyObjectStore
  /\ versionCache' = EmptyMap
  /\ headMemo' = JNull
  /\ boot' = "read"
  /\ calls' = <<>>
  /\ log' = [i \in DOMAIN log |-> [log[i] EXCEPT !.c = 0]]
  /\ UNCHANGED <<adapter, now, nfail, layers>>

(***************************************************************************)
(* Initial states: a new store is being constructed, over an empty adapter *)
(* (Init) or over an adapter that holds some head record (InitSeeded).     *)
(***************************************************************************)
\* head records that decodeHead rejects: {"head":42} and the lone byte "{"
MalformedStores ==
  { HEAD_KEY :> encodeHead(JNum("42")),
    HEAD_KEY :> <<LC>> }

SeedStores == {EmptyMap, HEAD_KEY :> encodeHead(JNull)} \cup MalformedStores

Constructing ==
  /\ inflight = {}
  /\ objectStore = EmptyObjectStore
  /\ versionCache = EmptyMap
  /\ headMemo = JNull
  /\ boot = "read"
  /\ calls = <<>>
  /\ log = <<>>
  /\ now \in 1..MaxTime
  /\ nboots = 1
  /\ nfail = 0
  /\ layers = <<>>

Init == adapter = EmptyMap /\ Constructing

InitSeeded == adapter \in SeedStores /\ Constructing

TaskStep ==
  \E c \in DOMAIN calls : \E path \in DOMAIN calls[c].tasks :
    \/ KidsResume(c, path)
    \/ HashResume(c, path)
    \/ WriteAck(c, path)

CommitStep ==
  \E c \in DOMAIN calls :
    \/ CommitParsed(c)
    \/ CommitWritten(c)
    \/ CommitRead(c)
    \/ CommitVersionHashed(c)
    \/ CommitVersionAck(c)
    \/ persistHead(c)
    \/ PersistHeadAck(c)
    \/ CommitReturn(c)

LoadStep ==
  \E c \in DOMAIN calls :
    \/ LoadVersionBlock(c)
    \/ LoadVersionValue(c)
    \/ ReadResume(c)

\* the adapter rejects a write it has not applied
FailStep ==
  \/ BootWriteFail
  \/ \E c \in DOMAIN calls :
        \/ \E path \in DOMAIN calls[c].tasks : WriteFail(c, path)
        \/ CommitVersionFail(c)
        \/ PersistHeadFail(c)

\* a store over an adapter whose writes all succeed
Next ==
  \/ BootRead
  \/ BootWriteAck
  \/ \E input \in Inputs : CommitCall(input)
  \/ HeadCall
  \/ \E hash \in Wanted : GetCall(hash)
  \/ TaskStep
  \/ CommitStep
  \/ LoadStep
  \/ \E w \in inflight : AdapterApply(w)

Spec == Init /\ [][Next]_vars

\* a store over an empty adapter whose caller commits inputs the schema
\* accepts and asks get for the hash of any block the adapter holds (the
\* versions, the value nodes, the head record) and for an unknown hash
AskWanted == DOMAIN adapter \cup {"missing"}

NextAsk ==
  \/ BootRead
  \/ BootWriteAck
  \/ \E input \in ValidInputs : CommitCall(input)
  \/ \E hash \in AskWanted : GetCall(hash)
  \/ TaskStep
  \/ CommitStep
  \/ LoadStep
  \/ \E w \in inflight : AdapterApply(w)

SpecAsk == Init /\ [][NextAsk]_vars

\* a store over an adapter whose writes may fail; the caller commits inputs
\* the schema accepts and asks for the head (which the instance serves from
\* versionCache, without a read of the adapter), and the clock stands still
InitFail == Init /\ now = MaxTime

NextFail ==
  \/ BootRead
  \/ BootWriteAck
  \/ \E input \in ValidInputs : CommitCall(input)
  \/ HeadCall
  \/ TaskStep
  \/ CommitStep
  \/ \E w \in inflight : AdapterApply(w)
  \/ FailStep

SpecFail == InitFail /\ [][NextFail]_vars

\* store instances constructed one after another over one adapter, which at
\* first holds a malformed head record; the write of a head record by commit
\* may reject; a new instance is constructed when the calls on the one
\* before have settled
InitBoot == adapter \in MalformedStores /\ Constructing

NextBoot ==
  \/ BootRead
  \/ BootWriteAck
  \/ Len(log) < MaxCommits /\ CommitCall(InputDup)
  \/ HeadCall
  \/ TaskStep
  \/ CommitStep
  \/ LoadStep
  \/ \E w \in inflight : AdapterApply(w)
  \/ \E c \in DOMAIN calls : PersistHeadFail(c)
  \/ Idle /\ Restart

SpecBoot == InitBoot /\ [][NextBoot]_vars

(***************************************************************************)
(* The object store used on its own: ObjectStore.write and ObjectStore.read *)
(* called directly, and a fresh ObjectStore instance created over the same *)
(* adapter.                                                                *)
(***************************************************************************)
MaxWrites == 1     \* ObjectStore.write calls (SpecOS)
MaxReads == 1      \* ObjectStore.read calls (SpecOS)
MaxCalls == 3      \* ObjectStore.write and read calls (SpecHash)

One == JNum("1")
StrOne == JStr("1")

OSValues ==
  { JNull, JStr(""), One, StrOne,
    JArr(<<>>), JObj(<<>>),
    JArr(<<One>>), JArr(<<One, StrOne>>), JArr(<<StrOne, One>>),
    JObj(<< <<"a", One>>, <<"", JArr(<<One>>)>> >>),
    JObj(<< <<"", JArr(<<One>>)>>, <<"a", One>> >>) }

OSIdle == boot = "os" /\ \A c \in DOMAIN calls : Settled(calls[c])

\* objectStore.write(value) is called
OSWriteCall(value) ==
  /\ OSIdle
  /\ calls' = Append(calls,
        [NewCall("write", "write", value) EXCEPT
            !.val = value,
            !.tasks = StartWrite(objectStore, Len(calls) + 1, value)])
  /\ UNCHANGED Others

\* objectStore.write settles
OSWriteReturn(c) ==
  /\ c \in DOMAIN calls /\ calls[c].kind = "write" /\ calls[c].pc = "write"
  /\ calls[c].tasks[<<>>].st \in {"done", "fail"}
  /\ LET root == calls[c].tasks[<<>>]
     IN calls' = [calls EXCEPT ![c] =
          IF root.st = "fail" THEN Rejected(@, "node")
          ELSE [@ EXCEPT !.pc = "done", !.vh = root.h, !.out.st = "value"]]
  /\ UNCHANGED Others

\* the hashes a caller reads: those its writes returned and an unknown one
Readable ==
  {calls[c].vh : c \in {d \in DOMAIN calls : calls[d].kind = "write" /\ calls[d].pc = "done"}}
    \cup {"missing"}

\* objectStore.read(hash) is called
OSReadCall(hash) ==
  /\ OSIdle
  /\ calls' = Append(calls,
        [NewCall("read", "read", JStr(hash)) EXCEPT !.rd = StartRead(objectStore, hash)])
  /\ UNCHANGED Others

\* objectStore.read settles
OSReadReturn(c) ==
  /\ c \in DOMAIN calls /\ calls[c].kind = "read" /\ calls[c].pc = "read"
  /\ calls[c].rd.st \in {"value", "undefined", "throw"}
  /\ LET rd == calls[c].rd
     IN calls' = [calls EXCEPT ![c] =
          IF rd.st = "throw" THEN Rejected(@, "read")
          ELSE [@ EXCEPT !.pc = "done", !.out.st = rd.st, !.out.version.value = rd.value]]
  /\ UNCHANGED Others

Quiet ==
  /\ inflight = {}
  /\ \A c \in DOMAIN calls : \A p \in DOMAIN calls[c].tasks :
        calls[c].tasks[p].st \notin {"kids", "hash", "write"}

\* createObjectStore is called again over the same adapter; the earlier
\* instance is no longer used
NewObjectStore ==
  /\ OSIdle /\ Quiet /\ nboots < MaxBoots
  /\ nboots' = nboots + 1
  /\ objectStore' = EmptyObjectStore
  /\ UNCHANGED <<adapter, inflight, versionCache, headMemo, boot, calls, log, now, nfail, layers>>

InitOS ==
  /\ adapter = EmptyMap
  /\ inflight = {}
  /\ objectStore = EmptyObjectStore
  /\ versionCache = EmptyMap
  /\ headMemo = JNull
  /\ boot = "os"
  /\ calls = <<>>
  /\ log = <<>>
  /\ now = 1
  /\ nboots = 1
  /\ nfail = 0
  /\ layers = <<>>

OSStep ==
  \/ \E c \in DOMAIN calls : OSWriteReturn(c) \/ OSReadReturn(c) \/ ReadResume(c)
  \/ \E c \in DOMAIN calls : \E path \in DOMAIN calls[c].tasks :
        KidsResume(c, path) \/ HashResume(c, path) \/ WriteAck(c, path)
  \/ \E w \in inflight : AdapterApply(w)

\* values are written and read back, on the instance that wrote them or on
\* a later one
NextOS ==
  \/ NumCalls({"write"}) < MaxWrites /\ \E value \in OSValues : OSWriteCall(value)
  \/ NumCalls({"read"}) < MaxReads /\ \E hash \in Readable : OSReadCall(hash)
  \/ OSStep
  \/ NewObjectStore

SpecOS == InitOS /\ [][NextOS]_vars

\* one instance serves any mix of writes and reads
NextHash ==
  \/ NumCalls({"write", "read"}) < MaxCalls /\ \E value \in OSValues : OSWriteCall(value)
  \/ NumCalls({"write", "read"}) < MaxCalls /\ \E hash \in Readable : OSReadCall(hash)
  \/ OSStep

SpecHash == InitOS /\ [][NextHash]_vars

\* objectStore.write(given) is called with the reference `given` that the
\* read of call d returned: write freezes it again (freezeJson copies every
\* array and object) and calls writeFrozen with the copy
OSRewriteCall(d) ==
  /\ OSIdle
  /\ d \in DOMAIN calls /\ calls[d].kind = "read" /\ calls[d].out.st = "value"
  /\ LET given == calls[d].out.version.value
     IN calls' = Append(calls,
           [NewCall("write", "write", <<"ref", given>>) EXCEPT
               !.val = given.val,
               !.tasks = StartWrite(objectStore, Len(calls) + 1, given.val)])
  /\ UNCHANGED Others

\* one instance serves writes, reads, and writes of what its reads returned
NextRewrite ==
  \/ NextHash
  \/ NumCalls({"write", "read"}) < MaxCalls /\ \E d \in DOMAIN calls : OSRewriteCall(d)

SpecRewrite == InitOS /\ [][NextRewrite]_vars

(***************************************************************************)
(* get over an adapter that an earlier process, or a fault, has left with  *)
(* blocks the store did not write in this run (specification SpecGet).     *)
(***************************************************************************)
\* a version block with the test's fields: previous null, timestamp 1
StoredVersion(valueHash) ==
  encodeVersionBlock(VersionBlock(Version("", Frozen(NoRef, JNull), JNull, JNum("1")),
                                  valueHash))

\* the node blocks of "hi", of an array of "hi" and the node "badnode", and
\* a node with tag 0 whose payload is the array ["hi"]
HiNode == serializeHNode(PrimitiveNode(JStr("hi")))

LooseNode == serializeHNode(PrimitiveNode(JArr(<<JStr("hi")>>)))

PairNode == serializeHNode(ArrayNode(<<hashFn(HiNode), "badnode">>))

\* the object node {a: <the array of PairNode>}
NestNode == serializeHNode(ObjectNode(<< <<"a", hashFn(PairNode)>> >>))

\* the seeded blocks: JSON that is no version block, a version block whose
\* value has no block, bytes that are not JSON, a version block whose value
\* is an array of "hi" and of a node that is not JSON, a version block of
\* the value "hi", a version block whose value node has tag 0 and an
\* array as payload, and a version block whose value is an object holding
\* that array
GetBlocks ==
  ("malformed" :> JsonStringify(JObj(<< <<"value", JNum("1")>> >>)))
  @@ ("dangling-version" :> StoredVersion("missing-value"))
  @@ ("garbage" :> <<LC>>)
  @@ ("pair-version" :> StoredVersion(hashFn(PairNode)))
  @@ (hashFn(PairNode) :> PairNode)
  @@ ("badnode" :> <<LC>>)
  @@ ("hi-version" :> StoredVersion(hashFn(HiNode)))
  @@ (hashFn(HiNode) :> HiNode)
  @@ ("loose-version" :> StoredVersion(hashFn(LooseNode)))
  @@ (hashFn(LooseNode) :> LooseNode)
  @@ ("nest-version" :> StoredVersion(hashFn(NestNode)))
  @@ (hashFn(NestNode) :> NestNode)

\* the adapter holds the seeded blocks, except node blocks that it has lost
GetStores ==
  {[h \in DOMAIN GetBlocks \ lost |-> GetBlocks[h]] :
     lost \in SUBSET {hashFn(PairNode), "badnode", hashFn(HiNode)}}

\* the hashes the caller asks for
GetWanted ==
  {"malformed", "dangling-version", "garbage", "pair-version", "hi-version",
   "loose-version", "nest-version", "missing", HEAD_KEY}

InitGet == adapter \in GetStores /\ Constructing

NextGet ==
  \/ BootRead
  \/ BootWriteAck
  \/ \E hash \in GetWanted : GetCall(hash)
  \/ LoadStep
  \/ \E w \in inflight : AdapterApply(w)

SpecGet == InitGet /\ [][NextGet]_vars

(***************************************************************************)
(* A store constructed over an adapter that already holds blocks and, in   *)
(* most cases, a head record (specification SpecAdopt): no record, the     *)
(* record of a null head, of a version, of a hash without a block, of a    *)
(* block that is not JSON, of the empty string, and a malformed record.    *)
(***************************************************************************)
AdoptHeads ==
  {encodeHead(JNull), encodeHead(JStr("hi-version")), encodeHead(JStr("missing")),
   encodeHead(JStr("garbage")), encodeHead(JStr("")), encodeHead(JNum("42"))}

AdoptStores == {GetBlocks} \cup {(HEAD_KEY :> record) @@ GetBlocks : record \in AdoptHeads}

\* the hashes the caller asks for: a version, the head record's key, the
\* block of a value node, a block that is not JSON, the versions committed
AdoptWanted ==
  {"hi-version", HEAD_KEY, hashFn(HiNode), "garbage"}
    \cup {log[i].version.hash : i \in DOMAIN log}

InitAdopt == adapter \in AdoptStores /\ Constructing

NextAdopt ==
  \/ BootRead
  \/ BootWriteAck
  \/ Len(log) < MaxCommits /\ CommitCall(InputDup)
  \/ HeadCall
  \/ \E hash \in AdoptWanted : GetCall(hash)
  \/ TaskStep
  \/ CommitStep
  \/ LoadStep
  \/ \E w \in inflight : AdapterApply(w)

SpecAdopt == InitAdopt /\ [][NextAdopt]_vars

(***************************************************************************)
(* The node store of packages/core: persist and the depth-limited          *)
(* materialize (specification SpecMaterialize).  Its adapter stores nodes, *)
(* not bytes: adapter maps a hash to <<kind, payload>>, the payload of an  *)
(* array node being its element hashes and that of an object node its      *)
(* <<key, hash>> entries.                                                  *)
(***************************************************************************)
MaxLimit == 2         \* largest limitDepth the caller passes
MaxLegacyCalls == 3   \* persist and materialize calls of the caller

toPrimitiveNode(value) == <<"primitive", value>>
toArrayNode(elements) == <<"array", elements>>
toObjectNode(entries) == <<"object", entries>>

\* the canonical form that serializeNode stringifies
canonicalizeNode(node) ==
  IF node[1] = "primitive" THEN JArr(<<JStr("primitive"), node[2]>>)
  ELSE IF node[1] = "array"
       THEN JArr(<<JStr("array"), JArr([i \in 1..Len(node[2]) |-> JStr(node[2][i])])>>)
  ELSE LET sorted == createObjectNode(node[2])
       IN JArr(<<JStr("object"),
                 JArr([i \in 1..Len(sorted) |->
                         JArr(<<JStr(node[2][sorted[i]][1]),
                                JStr(node[2][sorted[i]][2])>>)])>>)

hashNode(node) == hashFn(JsonStringify(canonicalizeNode(node)))

\* persistNode: the node is written unless the adapter has its hash
persistNode(node, store) ==
  [hash |-> hashNode(node),
   store |-> IF Has(store, hashNode(node)) THEN store
             ELSE (hashNode(node) :> node) @@ store]

\* persistValue(value) over the storage `store`: the root hash and the
\* storage afterwards; children are persisted before their parent
RECURSIVE persistValue(_, _)
RECURSIVE persistItems(_, _)
persistItems(values, store) ==
  IF values = <<>> THEN [hashes |-> <<>>, store |-> store]
  ELSE LET first == persistValue(values[1], store)
           rest == persistItems(Tail(values), first.store)
       IN [hashes |-> <<first.hash>> \o rest.hashes, store |-> rest.store]

persistValue(value, store) ==
  IF isJsonPrimitive(value) THEN persistNode(toPrimitiveNode(value), store)
  ELSE IF IsArray(value)
       THEN LET children == persistItems(value[2], store)
            IN persistNode(toArrayNode(children.hashes), children.store)
  ELSE LET keys == createObjectNode(value[2])
           children == persistItems([i \in 1..Len(keys) |-> value[2][keys[i]][2]], store)
       IN persistNode(
            toObjectNode([i \in 1..Len(keys) |->
                            <<value[2][keys[i]][1], children.hashes[i]>>]),
            children.store)

\* depths: <<"fin", n>>, or <<"inf">> for Number.POSITIVE_INFINITY
Infinity == <<"inf">>
Finite(n) == <<"fin", n>>
Minus1(depth) == IF depth = Infinity THEN Infinity ELSE Finite(depth[2] - 1)
Negative(depth) == depth # Infinity /\ depth[2] < 0

\* the outcome of a visit, with the hashes read from the adapter
VisitOutcome(value, visited, reads) ==
  [ok |-> TRUE, value |-> value, visited |-> visited, reads |-> reads]

MissingNode(reads) == [ok |-> FALSE, value |-> JNull, visited |-> 0, reads |-> reads]

\* Promise.all over the visits of the children
RECURSIVE SumVisited(_)
SumVisited(children) ==
  IF children = <<>> THEN 0 ELSE children[1].visited + SumVisited(Tail(children))

AllReads(children) == UNION {children[i].reads : i \in 1..Len(children)}

AllOk(children) == \A i \in 1..Len(children) : children[i].ok

RECURSIVE materializeHash(_, _, _)
asArrayValue(node, store, depth) ==
  LET nextDepth == Minus1(depth)
      children == [i \in 1..Len(node[2]) |-> materializeHash(node[2][i], store, nextDepth)]
  IN IF Negative(nextDepth)
     THEN VisitOutcome(JArr([i \in 1..Len(node[2]) |-> JStr(node[2][i])]), 1, {})
     ELSE IF ~AllOk(children) THEN MissingNode(AllReads(children))
     ELSE VisitOutcome(JArr([i \in 1..Len(children) |-> children[i].value]),
                       1 + SumVisited(children), AllReads(children))

asObjectValue(node, store, depth) ==
  LET nextDepth == Minus1(depth)
      pairs == [i \in 1..Len(node[2]) |-> materializeHash(node[2][i][2], store, nextDepth)]
  IN IF Negative(nextDepth)
     THEN VisitOutcome(JObj([i \in 1..Len(node[2]) |->
                               <<node[2][i][1], JStr(node[2][i][2])>>]), 1, {})
     ELSE IF ~AllOk(pairs) THEN MissingNode(AllReads(pairs))
     ELSE VisitOutcome(JObj([i \in 1..Len(pairs) |-> <<node[2][i][1], pairs[i].value>>]),
                       1 + SumVisited(pairs), AllReads(pairs))

asPrimitiveValue(node) == VisitOutcome(node[2], 1, {})

materializeHash(hash, store, depth) ==
  IF Negative(depth) THEN VisitOutcome(JStr(hash), 0, {})
  ELSE IF ~Has(store, hash) THEN MissingNode({hash})
  ELSE LET visit == IF store[hash][1] = "primitive" THEN asPrimitiveValue(store[hash])
                    ELSE IF store[hash][1] = "array"
                         THEN asArrayValue(store[hash], store, depth)
                    ELSE asObjectValue(store[hash], store, depth)
       IN [visit EXCEPT !.reads = @ \cup {hash}]

\* options: <<>> for none, or <<limitDepth>>

\* resolveDepthLimit that counts the root as depth 1
resolveDepthLimitFromOne(options) ==
  IF options = <<>> THEN Infinity ELSE Finite(options[1] - 1)

resolveDepthLimit(options) ==
  IF options = <<>> THEN Infinity ELSE Finite(options[1])

materialize(hash, store, options) ==
  materializeHash(hash, store, resolveDepthLimit(options))

\* the values the caller persists: a primitive, an empty array, an array
\* holding an array, and an object nested three deep with unsorted keys
\* that shares the node of "hi"
LegacyValues ==
  {JStr("hi"),
   JArr(<<>>),
   JArr(<<JStr("hi"), JArr(<<JNum("1")>>)>>),
   JObj(<< <<"b", JObj(<< <<"a", JObj(<< <<"a", JNum("1")>> >>)>> >>)>>,
           <<"a", JArr(<<JStr("hi")>>)>> >>)}

LegacyOptions == {<<>>} \cup {<<d>> : d \in 0..MaxLimit}

\* store.persist(value), awaited
PersistCall(value) ==
  /\ Len(calls) < MaxLegacyCalls
  /\ LET outcome == persistValue(value, adapter)
     IN /\ adapter' = outcome.store
        /\ calls' = Append(calls,
              [NewCall("persist", "done", value) EXCEPT !.vh = outcome.hash])
  /\ UNCHANGED <<inflight, objectStore, versionCache, headMemo, boot, log, now, nboots,
                 nfail, layers>>

\* store.materialize(rootHash, options) of the root hash that persist call
\* c returned, awaited: val is the value, issued the hashes read
MaterializeCall(c, options) ==
  /\ Len(calls) < MaxLegacyCalls
  /\ c \in DOMAIN calls /\ calls[c].kind = "persist"
  /\ LET outcome == materialize(calls[c].vh, adapter, options)
     IN calls' = Append(calls,
          [NewCall("materialize", IF outcome.ok THEN "done" ELSE "failed",
                   <<c, options>>)
             EXCEPT !.val = outcome.value,
                    !.issued = [h \in outcome.reads |-> 1]])
  /\ UNCHANGED Others

InitMaterialize == adapter = EmptyMap /\ Constructing

NextMaterialize ==
  \/ \E value \in LegacyValues : PersistCall(value)
  \/ \E c \in DOMAIN calls : \E options \in LegacyOptions : MaterializeCall(c, options)

SpecMaterialize == InitMaterialize /\ [][NextMaterialize]_vars

(***************************************************************************)
(* The cascade adapter (specification SpecCascade): read and write are     *)
(* called on a cascade over NumLayers adapters.  A write of a layer is      *)
(* applied to the layer's storage and then acknowledged, or it rejects     *)
(* without being applied; when Promise.all has rejected, the writes of the *)
(* other layers go on.  The caller makes a call when the call before has   *)
(* settled and the layer writes it left behind have come to an end.        *)
(***************************************************************************)
NumLayers == 3         \* adapters behind the cascade
MaxCascadeCalls == 3   \* read and write calls on the cascade

HeadBlock(version) == [hash |-> HEAD_KEY, bytes |-> encodeHead(JStr(version))]

\* what a layer holds at first: nothing, or the head record of version v1
LayerSeeds == {EmptyMap, HEAD_KEY :> HeadBlock("v1").bytes}

\* the blocks the caller writes and the hashes it reads: the head record,
\* the one key whose bytes change
CascadeWrites == {HeadBlock("v2")}

CascadeReads == {HEAD_KEY}

\* layer.write(frozen) for the layers `indices`: the writes, and their
\* entries in the call's record of issued operations
LayerWrites(c, indices, hash, bytes) ==
  {Write(c, <<"L", index>>, hash, bytes) : index \in indices}

LayerIssues(indices) == [e \in {<<"w", index>> : index \in indices} |-> 1]

CascadeOthers ==
  <<adapter, objectStore, versionCache, headMemo, boot, log, now, nboots>>

\* cascade.write(record): the write of every layer is issued
CascadeWriteCall(record) ==
  /\ \A k \in DOMAIN calls : Settled(calls[k])
  /\ LET c == Len(calls) + 1
         all == DOMAIN layers
     IN /\ calls' = Append(calls,
              [NewCall("cwrite", "fan", record.hash) EXCEPT
                 !.val = record.bytes,
                 !.issued = LayerIssues(all)])
        /\ inflight' = inflight \cup LayerWrites(c, all, record.hash, record.bytes)
  /\ UNCHANGED <<CascadeOthers, nfail, layers>>

\* cascade.read(hash) is called: layers[0].read(hash) is awaited
CascadeReadCall(hash) ==
  /\ \A k \in DOMAIN calls : Settled(calls[k])
  /\ calls' = Append(calls, NewCall("cread", "probe", hash))
  /\ UNCHANGED <<CascadeOthers, inflight, nfail, layers>>

\* the layers a read has probed so far
Probed(call) == {e[2] : e \in {x \in DOMAIN call.issued : x[1] = "r"}}

\* CascadeProbe that returns the block of the first hit at once
CascadeProbeNoHydrate(c) ==
  /\ c \in DOMAIN calls /\ calls[c].kind = "cread" /\ calls[c].pc = "probe"
  /\ LET call == calls[c]
         index == Cardinality(Probed(call)) + 1
         seen == [call EXCEPT !.issued = BagAdd(@, <<"r", index>>)]
     IN calls' = [calls EXCEPT ![c] =
          IF Has(layers[index], call.arg)
          THEN Resolved([seen EXCEPT !.val = layers[index][call.arg]], "value", NoVersion)
          ELSE IF index = Len(layers) THEN Resolved(seen, "undefined", NoVersion)
          ELSE seen]
  /\ UNCHANGED <<CascadeOthers, inflight, nfail, layers>>

\* CascadeProbe that gives up at the first layer that misses
CascadeProbeShort(c) ==
  /\ c \in DOMAIN calls /\ calls[c].kind = "cread" /\ calls[c].pc = "probe"
  /\ LET call == calls[c]
         index == Cardinality(Probed(call)) + 1
         seen == [call EXCEPT !.issued = BagAdd(@, <<"r", index>>)]
     IN calls' = [calls EXCEPT ![c] =
          IF Has(layers[index], call.arg)
          THEN Resolved([seen EXCEPT !.val = layers[index][call.arg]], "value", NoVersion)
          ELSE Resolved(seen, "undefined", NoVersion)]
  /\ UNCHANGED <<CascadeOthers, inflight, nfail, layers>>

\* CascadeProbe that hydrates layers.slice(0, hitIndex + 1)
CascadeProbeInclusive(c) ==
  /\ c \in DOMAIN calls /\ calls[c].kind = "cread" /\ calls[c].pc = "probe"
  /\ LET call == calls[c]
         index == Cardinality(Probed(call)) + 1
         seen == [call EXCEPT !.issued = BagAdd(@, <<"r", index>>)]
         hit == Has(layers[index], call.arg)
         frozen == [seen EXCEPT !.val = layers[index][call.arg]]
         above == 1..index
     IN IF ~hit
        THEN /\ calls' = [calls EXCEPT ![c] =
                   IF index = Len(layers) THEN Resolved(seen, "undefined", NoVersion)
                   ELSE seen]
             /\ UNCHANGED inflight
        ELSE /\ calls' = [calls EXCEPT ![c] =
                   [frozen EXCEPT !.pc = "hydrate",
                      !.issued = LayerIssues(above) @@ @]]
             /\ inflight' = inflight \cup LayerWrites(c, above, call.arg, frozen.val)
  /\ UNCHANGED <<CascadeOthers, nfail, layers>>

\* cascade.read: the read of the next layer returns
CascadeProbe(c) ==
  /\ c \in DOMAIN calls /\ calls[c].kind = "cread" /\ calls[c].pc = "probe"
  /\ LET call == calls[c]
         index == Cardinality(Probed(call)) + 1
         seen == [call EXCEPT !.issued = BagAdd(@, <<"r", index>>)]
         hit == Has(layers[index], call.arg)
         frozen == [seen EXCEPT !.val = layers[index][call.arg]]
         above == 1..(index - 1)
     IN IF ~hit
        THEN /\ calls' = [calls EXCEPT ![c] =
                   IF index = Len(layers) THEN Resolved(seen, "undefined", NoVersion)
                   ELSE seen]
             /\ UNCHANGED inflight
        ELSE IF index > 1
        THEN /\ calls' = [calls EXCEPT ![c] =
                   [frozen EXCEPT !.pc = "hydrate",
                      !.issued = LayerIssues(above) @@ @]]
             /\ inflight' = inflight \cup LayerWrites(c, above, call.arg, frozen.val)
        ELSE /\ calls' = [calls EXCEPT ![c] = Resolved(frozen, "value", NoVersion)]
             /\ UNCHANGED inflight
  /\ UNCHANGED <<CascadeOthers, nfail, layers>>

\* a layer stores the block of a write
LayerApply(w) ==
  /\ w \in inflight /\ ~w.applied /\ w.slot[1] = "L"
  /\ layers' = [layers EXCEPT ![w.slot[2]] = (w.hash :> w.bytes) @@ @]
  /\ inflight' = (inflight \ {w}) \cup {[w EXCEPT !.applied = TRUE]}
  /\ UNCHANGED <<CascadeOthers, calls, nfail>>

\* LayerAck that lets the call resolve with the first acknowledgement
LayerAckFirst(c, index) ==
  /\ c \in DOMAIN calls
  /\ Pending(c, <<"L", index>>) /\ WriteOf(c, <<"L", index>>).applied
  /\ inflight' = inflight \ {WriteOf(c, <<"L", index>>)}
  /\ calls' = [calls EXCEPT ![c] =
        IF @.pc \in {"fan", "hydrate"}
        THEN Resolved(@, IF @.kind = "cread" THEN "value" ELSE "void", NoVersion)
        ELSE @]
  /\ UNCHANGED <<CascadeOthers, nfail, layers>>

\* a layer acknowledges a write; Promise.all resolves with the last one
LayerAck(c, index) ==
  /\ c \in DOMAIN calls
  /\ Pending(c, <<"L", index>>) /\ WriteOf(c, <<"L", index>>).applied
  /\ inflight' = inflight \ {WriteOf(c, <<"L", index>>)}
  /\ calls' = [calls EXCEPT ![c] =
        IF @.pc \in {"fan", "hydrate"} /\ ~\E w \in inflight' : w.c = c
        THEN Resolved(@, IF @.kind = "cread" THEN "value" ELSE "void", NoVersion)
        ELSE @]
  /\ UNCHANGED <<CascadeOthers, nfail, layers>>

\* a layer rejects a write: Promise.all rejects unless it already has
LayerFail(c, index) ==
  /\ c \in DOMAIN calls
  /\ Pending(c, <<"L", index>>) /\ ~WriteOf(c, <<"L", index>>).applied
  /\ nfail < MaxFailures /\ nfail' = nfail + 1
  /\ inflight' = inflight \ {WriteOf(c, <<"L", index>>)}
  /\ calls' = [calls EXCEPT ![c] = IF @.pc \in {"fan", "hydrate"} THEN Rejected(@, "layer") ELSE @]
  /\ UNCHANGED <<CascadeOthers, layers>>

InitCascade ==
  /\ adapter = EmptyMap
  /\ inflight = {}
  /\ objectStore = EmptyObjectStore
  /\ versionCache = EmptyMap
  /\ headMemo = JNull
  /\ boot = "cascade"
  /\ calls = <<>>
  /\ log = <<>>
  /\ now = 1
  /\ nboots = 1
  /\ nfail = 0
  /\ layers \in [1..NumLayers -> LayerSeeds]

\* the caller makes another call: no layer write is in flight
MoreCalls == inflight = {} /\ Len(calls) < MaxCascadeCalls

NextCascade ==
  \/ MoreCalls /\ \E record \in CascadeWrites : CascadeWriteCall(record)
  \/ MoreCalls /\ \E hash \in CascadeReads : CascadeReadCall(hash)
  \/ \E c \in DOMAIN calls : CascadeProbe(c)
  \/ \E w \in inflight : LayerApply(w)
  \/ \E c \in DOMAIN calls : \E index \in DOMAIN layers : LayerAck(c, index)
  \/ \E c \in DOMAIN calls : \E index \in DOMAIN layers : LayerFail(c, index)

SpecCascade == InitCascade /\ [][NextCascade]_vars

\* a read and a write of the cascade that the caller does not await one
\* after the other (specification SpecCascadeOverlap)
CascadeWriteOverlapping(record) ==
  /\ NumCalls({"cwrite"}) < MaxWrites
  /\ LET c == Len(calls) + 1
         all == DOMAIN layers
     IN /\ calls' = Append(calls,
              [NewCall("cwrite", "fan", record.hash) EXCEPT
                 !.val = record.bytes,
                 !.issued = LayerIssues(all)])
        /\ inflight' = inflight \cup LayerWrites(c, all, record.hash, record.bytes)
  /\ UNCHANGED <<CascadeOthers, nfail, layers>>

CascadeReadOverlapping(hash) ==
  /\ NumCalls({"cread"}) < MaxReads
  /\ calls' = Append(calls, NewCall("cread", "probe", hash))
  /\ UNCHANGED <<CascadeOthers, inflight, nfail, layers>>

NextCascadeOverlap ==
  \/ \E record \in CascadeWrites : CascadeWriteOverlapping(record)
  \/ \E hash \in CascadeReads : CascadeReadOverlapping(hash)
  \/ \E c \in DOMAIN calls : CascadeProbe(c)
  \/ \E w \in inflight : LayerApply(w)
  \/ \E c \in DOMAIN calls : \E index \in DOMAIN layers : LayerAck(c, index)

SpecCascadeOverlap == InitCascade /\ [][NextCascadeOverlap]_vars

(***************************************************************************)
(* createCascadeAdapter (specification SpecCreate): the cascade is built   *)
(* from a list of zero to NumLayers adapters, held in `layers`, and then   *)
(* read and written as in SpecCascade.                                     *)
(***************************************************************************)
\* ensureAdapters that accepts the empty list
ensureAdaptersAny(adapters) == [ok |-> TRUE, layers |-> adapters]

ensureAdapters(adapters) ==
  IF Len(adapters) = 0 THEN [ok |-> FALSE, layers |-> <<>>]
  ELSE [ok |-> TRUE, layers |-> adapters]

\* createCascadeAdapter({adapters}) throws or returns the adapter
CreateCascade ==
  /\ boot = "create"
  /\ boot' = IF ensureAdapters(layers).ok THEN "cascade" ELSE "threw"
  /\ layers' = ensureAdapters(layers).layers
  /\ UNCHANGED <<adapter, inflight, objectStore, versionCache, headMemo, calls, log, now,
                 nboots, nfail>>

InitCreate ==
  /\ adapter = EmptyMap
  /\ inflight = {}
  /\ objectStore = EmptyObjectStore
  /\ versionCache = EmptyMap
  /\ headMemo = JNull
  /\ boot = "create"
  /\ calls = <<>>
  /\ log = <<>>
  /\ now = 1
  /\ nboots = 1
  /\ nfail = 0
  /\ \E n \in 0..NumLayers : layers \in [1..n -> LayerSeeds]

NextCreate ==
  \/ CreateCascade
  \/ boot = "cascade" /\ NextCascade

SpecCreate == InitCreate /\ [][NextCreate]_vars

(***************************************************************************)
(* The cascade over layers that keep the buffers they are handed           *)
(* (specification SpecKeep).  A byte buffer is a pair of an identity and   *)
(* its current bytes; a layer stores the buffer of the block it is given   *)
(* and returns that buffer from read.  The caller writes, reads, and       *)
(* overwrites the bytes of a buffer it holds: the one it passed to write   *)
(* or the one a read returned.  Layer reads and writes return at once.     *)
(***************************************************************************)
MaxEvents == 4   \* writes, reads and overwrites of the caller

Buffer(id, bytes) == [buf |-> id, bytes |-> bytes]

\* new Uint8Array(block.bytes): a new buffer `id` with the same bytes
freezeBlock(id, block) == [hash |-> block.hash, bytes |-> Buffer(id, block.bytes.bytes)]

\* the bytes a caller leaves in a buffer it overwrites
Scribble == <<LB>>

\* cascade.write(record) over keeping layers; the caller's buffer is new
KeepWrite(record) ==
  LET c == Len(calls) + 1
      given == [record EXCEPT !.bytes = Buffer(<<c, "given">>, @)]
      frozen == freezeBlock(<<c, "frozen">>, given)
  IN /\ layers' = [i \in DOMAIN layers |-> (frozen.hash :> frozen.bytes) @@ layers[i]]
     /\ calls' = Append(calls,
           Resolved([NewCall("cwrite", "fan", record.hash) EXCEPT !.val = given.bytes],
                    "void", NoVersion))
     /\ UNCHANGED <<CascadeOthers, inflight, nfail>>

\* cascade.read(hash) over keeping layers
KeepRead(hash) ==
  LET c == Len(calls) + 1
      hits == {i \in DOMAIN layers : Has(layers[i], hash)}
      hitIndex == CHOOSE i \in hits : \A j \in hits : i <= j
      frozen == freezeBlock(<<c, "frozen">>, [hash |-> hash, bytes |-> layers[hitIndex][hash]])
  IN /\ IF hits = {}
        THEN /\ calls' = Append(calls,
                   Resolved(NewCall("cread", "probe", hash), "undefined", NoVersion))
             /\ UNCHANGED layers
        ELSE /\ calls' = Append(calls,
                   Resolved([NewCall("cread", "probe", hash) EXCEPT !.val = frozen.bytes],
                            "value", NoVersion))
             /\ layers' = [i \in DOMAIN layers |->
                   IF i < hitIndex THEN (hash :> frozen.bytes) @@ layers[i] ELSE layers[i]]
     /\ UNCHANGED <<CascadeOthers, inflight, nfail>>

\* the caller overwrites the bytes of the buffer of call c: the one it
\* passed to write, or the one read returned
Overwrite(c) ==
  /\ calls[c].kind \in {"cwrite", "cread"} /\ calls[c].out.st \in {"void", "value"}
  /\ LET b == calls[c].val.buf
     IN layers' = [i \in DOMAIN layers |-> [h \in DOMAIN layers[i] |->
           IF layers[i][h].buf = b THEN Buffer(b, Scribble) ELSE layers[i][h]]]
  /\ calls' = Append(calls, NewCall("overwrite", "done", c))
  /\ UNCHANGED <<CascadeOthers, inflight, nfail>>

InitKeep ==
  /\ adapter = EmptyMap
  /\ inflight = {}
  /\ objectStore = EmptyObjectStore
  /\ versionCache = EmptyMap
  /\ headMemo = JNull
  /\ boot = "cascade"
  /\ calls = <<>>
  /\ log = <<>>
  /\ now = 1
  /\ nboots = 1
  /\ nfail = 0
  /\ \E seeds \in [1..NumLayers -> LayerSeeds] :
        layers = [i \in 1..NumLayers |->
                    [h \in DOMAIN seeds[i] |-> Buffer(<<0, i>>, seeds[i][h])]]

NextKeep ==
  \/ Len(calls) < MaxEvents /\ \E record \in CascadeWrites : KeepWrite(record)
  \/ Len(calls) < MaxEvents /\ \E hash \in CascadeReads : KeepRead(hash)
  \/ Len(calls) < MaxEvents /\ \E c \in DOMAIN calls : Overwrite(c)

SpecKeep == InitKeep /\ [][NextKeep]_vars

(***************************************************************************)
(* Overlapping commits (specification SpecOverlap): the caller calls       *)
(* commit on one instance without awaiting the commits before it.          *)
(***************************************************************************)
InputEmpty == JObj(<< <<"a", JArr(<<>>)>> >>)
InputOne == JObj(<< <<"a", JArr(<<>>)>>, <<"B", One>> >>)

\* commit(input) is called while earlier commits may be pending
CommitOverlapping(input) ==
  /\ boot = "ready" /\ NumCalls({"commit"}) < MaxCommits
  /\ calls' = Append(calls, NewCall("commit", "parse", input))
  /\ UNCHANGED Others

NextOverlap ==
  \/ BootRead
  \/ BootWriteAck
  \/ \E input \in {InputEmpty, InputOne} : CommitOverlapping(input)
  \/ TaskStep
  \/ CommitStep
  \/ \E w \in inflight : AdapterApply(w)

SpecOverlap == InitFail /\ [][NextOverlap]_vars

(***************************************************************************)
(* Semantic equality of JSON values: equality up to the order of object    *)
(* entries.                                                                *)
(***************************************************************************)
Keys(v) == {v[2][i][1] : i \in 1..Len(v[2])}

ValueOf(v, k) == v[2][CHOOSE i \in 1..Len(v[2]) : v[2][i][1] = k][2]

RECURSIVE SemEq(_, _)
SemEq(v1, v2) ==
  IF isJsonPrimitive(v1) \/ isJsonPrimitive(v2) THEN v1 = v2
  ELSE IF IsArray(v1) \/ IsArray(v2)
       THEN /\ IsArray(v1) /\ IsArray(v2) /\ Len(v1[2]) = Len(v2[2])
            /\ \A i \in 1..Len(v1[2]) : SemEq(v1[2][i], v2[2][i])
  ELSE /\ Keys(v1) = Keys(v2)
       /\ \A k \in Keys(v1) : SemEq(ValueOf(v1, k), ValueOf(v2, k))

(***************************************************************************)
(* Properties of the version store (specifications Spec and SpecFail).     *)
(***************************************************************************)
\* the commits that had returned when call c was made
LogBefore(c) == {i \in DOMAIN log : log[i].c < c}

HeadOfLog == IF log = <<>> THEN JNull ELSE JStr(log[Len(log)].version.hash)

IsQuery(call) == call.kind \in {"head", "get"} /\ Settled(call)

\* the hash a settled head/get call was asked to load (JNull: none)
Target(c) ==
  IF calls[c].kind = "get" THEN calls[c].arg
  ELSE IF LogBefore(c) = {} THEN JNull
  ELSE JStr(log[Cardinality(LogBefore(c))].version.hash)

SameVersion(version, entry) ==
  /\ version.hash = entry.version.hash
  /\ version.previous = entry.version.previous
  /\ version.timestamp = entry.version.timestamp
  /\ SemEq(version.value.val, entry.parsed)

\* C1: after successive awaited commits v1..vN on a store created over empty
\* storage, each commit's `previous` is the hash returned by the commit
\* before it (null for the first), the returned hashes are pairwise
\* distinct, head() returns the version of vN and get(h) of the hash of the
\* i-th commit returns the version of vi with that `previous`: following
\* `previous` from head() through get() visits vN, ..., v1 and then null.
C1_VersionChain ==
  /\ \A i \in DOMAIN log :
        log[i].version.previous = IF i = 1 THEN JNull ELSE JStr(log[i - 1].version.hash)
  /\ \A i, j \in DOMAIN log : i # j => log[i].version.hash # log[j].version.hash
  /\ \A c \in DOMAIN calls : IsQuery(calls[c]) =>
        \A i \in LogBefore(c) :
           Target(c) = JStr(log[i].version.hash) =>
              calls[c].out.st = "value" /\ SameVersion(calls[c].out.version, log[i])

C1_Witness ==
  /\ Len(log) = 2
  /\ \E c \in DOMAIN calls :
        /\ calls[c].kind = "get" /\ calls[c].pc = "done"
        /\ calls[c].arg = log[2].version.previous
        /\ calls[c].out.st = "value"
        /\ calls[c].out.version.previous = JNull

\* C2 as stated: after commit(v) has resolved, head() returns a version with
\* the hash that commit returned and a value semantically equal to v, until
\* the next commit succeeds.
C2_HeadValueIsInput ==
  \A c \in DOMAIN calls : (calls[c].kind = "head" /\ Settled(calls[c])) =>
     \A i \in LogBefore(c) : i = Cardinality(LogBefore(c)) =>
        /\ calls[c].out.st = "value"
        /\ calls[c].out.version.hash = log[i].version.hash
        /\ SemEq(calls[c].out.version.value.val, log[i].input)

\* C2 amended: after commit(v) has resolved, head() returns a version with
\* the hash that commit returned and a value semantically equal to the
\* schema's parsed output for v, until the next commit succeeds.
C2_HeadValueIsParsed ==
  \A c \in DOMAIN calls : (calls[c].kind = "head" /\ Settled(calls[c])) =>
     \A i \in LogBefore(c) : i = Cardinality(LogBefore(c)) =>
        /\ calls[c].out.st = "value"
        /\ calls[c].out.version.hash = log[i].version.hash
        /\ SemEq(calls[c].out.version.value.val, SchemaParse(log[i].input).val)

C2_Witness ==
  \E c \in DOMAIN calls :
     /\ calls[c].kind = "head" /\ calls[c].pc = "done" /\ calls[c].out.st = "value"
     /\ Len(log) = 2 /\ LogBefore(c) = {1, 2}
     /\ log[2].input = InputExtra
     /\ calls[c].out.version.hash = log[2].version.hash

\* call c has a writeFrozen invocation that has not settled, or a node
\* write in flight
NodeActive(c) ==
  \/ \E p \in DOMAIN calls[c].tasks : calls[c].tasks[p].st \in {"kids", "hash", "write"}
  \/ \E w \in inflight : w.c = c /\ w.slot[1] = "n"

IssuedKinds(c) == {e[1] : e \in DOMAIN calls[c].issued}

\* C3: within one commit, the version-block write is issued only when every
\* node write of the commit has been acknowledged and none can follow, the
\* head-record write is issued only when the version-block write has been
\* acknowledged, no node write is issued once the version or head write has
\* been issued, and headMemo changes only in the step that receives the
\* acknowledgement of a head-record write (to the hash written).
C3_WriteOrder ==
  [][ /\ \A c \in DOMAIN calls :
           /\ (~Pending(c, <<"v">>) /\ Pending(c, <<"v">>)') =>
                 /\ ~NodeActive(c)
                 /\ calls[c].tasks[<<>>].st = "done"
           /\ (~Pending(c, <<"h">>) /\ Pending(c, <<"h">>)') =>
                 /\ ~NodeActive(c) /\ ~Pending(c, <<"v">>)
                 /\ Has(versionCache, calls[c].ver.hash)
                 /\ Has(adapter, calls[c].ver.hash)
           /\ (\E w \in inflight' \ inflight : w.c = c /\ w.slot[1] = "n") =>
                 IssuedKinds(c) \subseteq {"n"}
      /\ headMemo' # headMemo =>
           \E c \in DOMAIN calls :
              /\ Pending(c, <<"h">>) /\ WriteOf(c, <<"h">>).applied
              /\ ~Pending(c, <<"h">>)'
              /\ headMemo' = JStr(calls[c].ver.hash)
    ]_vars

C3_Witness ==
  \E c \in DOMAIN calls :
     /\ Pending(c, <<"h">>)
     /\ IssuedKinds(c) = {"n", "v", "h"}
     /\ Cardinality(DOMAIN calls[c].issued) >= 4

RECURSIVE NodePresent(_, _)
\* the block of node `hash` and of every node below it is in `store`
NodePresent(store, hash) ==
  /\ Has(store, hash)
  /\ LET parsed == JsonParse(store[hash])
     IN /\ parsed.ok
        /\ NodeKind(parsed.val) \in {"prim", "arr", "obj"}
        /\ NodeKind(parsed.val) # "prim" =>
              \A i \in 1..Len(NodeKids(parsed.val)) :
                 NodePresent(store, NodeKids(parsed.val)[i][2])

RECURSIVE ChainPresent(_, _)
\* the version named by `head` (JNull: none), its value and all its
\* ancestors are in `store`
ChainPresent(store, head) ==
  \/ head = JNull
  \/ /\ IsStr(head) /\ Has(store, head[2])
     /\ LET parsed == JsonParse(store[head[2]])
        IN /\ parsed.ok /\ isVersionBlock(parsed.val)
           /\ NodePresent(store, Prop(parsed.val, "value")[2])
           /\ ChainPresent(store, Prop(parsed.val, "previous"))

\* C4: in every reachable state of a store over initially empty storage
\* (hence wherever a crash may stop a commit), the head record, if present,
\* is well formed, and the version it names, every version reachable from
\* it via `previous` and every node their values reference have their
\* blocks in the adapter.
C4_HeadClosure ==
  Has(adapter, HEAD_KEY) =>
     LET parsed == JsonParse(adapter[HEAD_KEY])
     IN /\ parsed.ok /\ IsObject(parsed.val)
        /\ Prop(parsed.val, "head")[1] \in {"str", "null"}
        /\ ChainPresent(adapter, Prop(parsed.val, "head"))

C4_Witness ==
  /\ Has(adapter, HEAD_KEY)
  /\ IsStr(decodeHead(adapter[HEAD_KEY]))
  /\ IsStr(Prop(JsonParse(adapter[decodeHead(adapter[HEAD_KEY])[2]]).val, "previous"))
  /\ \E w \in inflight : w.slot = <<"h">> /\ w.applied
  /\ headMemo # decodeHead(adapter[HEAD_KEY])

(***************************************************************************)
(* Properties of the object store (specifications SpecOS and SpecHash).    *)
(***************************************************************************)
IsDone(c, kind) == calls[c].kind = kind /\ calls[c].pc = "done"

\* C5: a read of the hash that an earlier write returned resolves to a
\* value semantically equal to the value written (object key order aside),
\* for every value written, among them {}, [], null and "", whether the
\* read is served by the instance that wrote the value or by a later
\* instance over the same adapter.
C5_RoundTrip ==
  \A r \in DOMAIN calls : \A w \in DOMAIN calls :
     (/\ calls[r].kind = "read" /\ Settled(calls[r])
      /\ w < r /\ IsDone(w, "write") /\ calls[r].arg = JStr(calls[w].vh))
     => /\ calls[r].pc = "done" /\ calls[r].out.st = "value"
        /\ SemEq(calls[r].out.version.value.val, calls[w].val)

C5_Witness ==
  \E r \in DOMAIN calls : \E w \in DOMAIN calls :
     /\ IsDone(r, "read") /\ IsDone(w, "write") /\ w < r
     /\ calls[r].arg = JStr(calls[w].vh)
     /\ calls[r].inst # calls[w].inst
     /\ IsObject(calls[w].val) /\ Len(calls[w].val[2]) = 2
     /\ calls[r].out.st = "value"

\* C6: with the collision-free hashFn, two writes return the same hash if
\* and only if their values are equal up to the order of object keys,
\* whatever was written or read on the instance in between (so key order
\* never matters, while array order and the kind of a value do).
C6_HashIffEqual ==
  \A w1 \in DOMAIN calls : \A w2 \in DOMAIN calls :
     (IsDone(w1, "write") /\ IsDone(w2, "write"))
     => (calls[w1].vh = calls[w2].vh <=> SemEq(calls[w1].val, calls[w2].val))

C6_Witness ==
  /\ Len(calls) = 3
  /\ IsDone(1, "write") /\ IsDone(2, "read") /\ IsDone(3, "write")
  /\ calls[1].val # calls[3].val /\ calls[1].vh = calls[3].vh
  /\ calls[2].arg = JStr(calls[1].vh) /\ calls[2].out.st = "value"

(***************************************************************************)
(* Properties of commit: reuse of persisted nodes, rejections, failures.   *)
(***************************************************************************)
NodeWrites(c) == {e \in DOMAIN calls[c].issued : e[1] = "n"}

\* C7: a commit whose (parsed) value is structurally equal to the value of
\* a commit that succeeded earlier on the same store instance issues no
\* adapter write for a value node; when it returns it has issued exactly
\* one version-block write and one head-record write, its value hash is
\* that of the earlier commit and its version hash differs from it.
C7_RecommitWritesNoNodes ==
  \A c \in DOMAIN calls : \A i \in LogBefore(c) :
     (/\ calls[c].kind = "commit" /\ calls[c].pc \notin {"parse", "failed"}
      /\ SemEq(calls[c].val, log[i].parsed))
     => /\ NodeWrites(c) = {}
        /\ calls[c].pc = "done" =>
              /\ calls[c].issued =
                    (<<"v", calls[c].ver.hash>> :> 1) @@ (<<"h", HEAD_KEY>> :> 1)
              /\ calls[c].vh = log[i].valueHash
              /\ calls[c].ver.hash # log[i].version.hash

C7_Witness ==
  /\ Len(log) = 2
  /\ log[1].parsed = SchemaParse(InputDup).val
  /\ SemEq(log[1].parsed, log[2].parsed)
  /\ NodeWrites(log[1].c) # {} /\ NodeWrites(log[2].c) = {}
  /\ log[1].valueHash = log[2].valueHash

\* C8 as stated: during one commit the adapter receives exactly one write
\* for each distinct block: no block is written twice by the same call.
C8_OneWritePerNode ==
  \A c \in DOMAIN calls : \A e \in DOMAIN calls[c].issued : calls[c].issued[e] = 1

\* C9: the step in which the schema rejects the input of a commit makes
\* the commit reject with the schema's error and changes nothing else: no
\* adapter write is issued or in flight for it, the adapter (hence the head
\* record), headMemo, versionCache and the object-store caches are the
\* same after the step, so head() returns what it returned before; and a
\* commit of a rejected input never gets past the schema.
C9_SchemaRejection ==
  [][ \A c \in DOMAIN calls :
        (calls[c].kind = "commit" /\ ~SchemaParse(calls[c].arg).ok) =>
           /\ calls[c].pc \in {"parse", "failed"}
           /\ calls'[c].pc \in {"parse", "failed"}
           /\ calls'[c].issued = EmptyMap /\ ~\E w \in inflight' : w.c = c
           /\ calls'[c] # calls[c] =>
                 /\ calls'[c].pc = "failed" /\ calls'[c].err = "schema"
                 /\ calls'[c].out.st = "throw"
                 /\ UNCHANGED <<adapter, inflight, objectStore, versionCache, headMemo, log>>
    ]_vars

C9_Witness ==
  /\ Len(calls) = 3 /\ Len(log) = 1 /\ log[1].c = 1
  /\ calls[2].kind = "commit" /\ calls[2].pc = "failed" /\ calls[2].err = "schema"
  /\ IsDone(3, "head") /\ calls[3].out.st = "value"
  /\ calls[3].out.version.hash = log[1].version.hash

\* a write of a value node or of the version block of commit c has failed
FailedBeforeHead(c) ==
  /\ calls[c].kind = "commit"
  /\ \/ \E p \in DOMAIN calls[c].tasks : calls[c].tasks[p].st = "fail"
     \/ calls[c].err \in {"node", "version"}

\* C10: a commit for which the adapter rejected the write of a value node
\* or of the version block never issues the head-record write and never
\* returns a version; once it has rejected (and until the next call) the
\* persisted head record and headMemo name the version of the last
\* successful commit (null when there is none), and a head() that follows
\* returns that version (or null).
C10_FailureKeepsHead ==
  \A c \in DOMAIN calls :
     FailedBeforeHead(c) =>
        /\ \A e \in DOMAIN calls[c].issued : e[1] # "h"
        /\ calls[c].pc # "done" /\ calls[c].out.st # "value"
        /\ Settled(calls[c]) => calls[c].pc = "failed" /\ calls[c].out.st = "throw"
        /\ (Settled(calls[c]) /\ c = Len(calls)) =>
              /\ headMemo = HeadOfLog
              /\ Has(adapter, HEAD_KEY) /\ decodeHead(adapter[HEAD_KEY]) = HeadOfLog
        /\ (Settled(calls[c]) /\ c + 1 = Len(calls) /\ IsQuery(calls[c + 1])) =>
              /\ calls[c + 1].pc = "done"
              /\ IF log = <<>> THEN calls[c + 1].out.st = "null"
                 ELSE /\ calls[c + 1].out.st = "value"
                      /\ JStr(calls[c + 1].out.version.hash) = HeadOfLog

C10_Witness ==
  /\ Len(calls) = 3 /\ Len(log) = 1 /\ log[1].c = 1
  /\ calls[2].kind = "commit" /\ calls[2].pc = "failed" /\ calls[2].err = "version"
  /\ NodeWrites(2) # {}
  /\ IsDone(3, "head") /\ calls[3].out.st = "value"
  /\ calls[3].out.version.hash = log[1].version.hash

(***************************************************************************)
(* Properties of the head initialisation and of restarts.                  *)
(***************************************************************************)
\* the adapter writes in flight that createStore itself issued
BootWrites(ws) == {<<w.hash, w.bytes>> : w \in {x \in ws : x.c = 0}}

\* C12: constructing a store over an adapter that holds no head record
\* issues exactly one adapter write, of the key __hstore_head__ with bytes
\* that decode to {head: null}, which is in the adapter when createStore
\* returns; afterwards head() returns null until a commit succeeds, and the
\* first commit returns previous = null.
C12_FreshHeadRecord ==
  /\ [][ /\ (boot = "read" /\ boot' # "read") =>
              /\ boot' = "write"
              /\ inflight' = {Write(0, BootSlot, HEAD_KEY, encodeHead(JNull))}
              /\ adapter' = adapter
         /\ boot # "read" => BootWrites(inflight') \subseteq BootWrites(inflight)
         /\ boot' # "ready" => \A w \in inflight' : w.c = 0
         /\ (boot # "ready" /\ boot' = "ready") =>
              /\ boot = "write" /\ headMemo' = JNull
              /\ DOMAIN adapter' = {HEAD_KEY}
              /\ JsonParse(adapter'[HEAD_KEY]).ok
              /\ JsonParse(adapter'[HEAD_KEY]).val = JObj(<< <<"head", JNull>> >>)
       ]_vars
  /\ [](/\ \A c \in DOMAIN calls :
            (calls[c].kind = "head" /\ Settled(calls[c]) /\ LogBefore(c) = {}) =>
               calls[c].out.st = "null"
        /\ log # <<>> => log[1].version.previous = JNull)

C12_Witness ==
  /\ Len(calls) = 2 /\ Len(log) = 1
  /\ IsDone(1, "head") /\ calls[1].out.st = "null"
  /\ IsDone(2, "commit") /\ calls[2].out.version.previous = JNull
  /\ decodeHead(adapter[HEAD_KEY]) = JStr(log[1].version.hash)

\* the bytes of a head record that is not {"head": <string or null>}
MalformedHead(bytes) ==
  LET data == JsonParse(bytes)
  IN ~(data.ok /\ IsObject(data.val) /\ Prop(data.val, "head")[1] \in {"str", "null"})

\* C13: constructing a store over an adapter whose head record is malformed
\* ({head: 42}, or bytes that are not JSON) does not fail: createStore
\* issues exactly one adapter write, which overwrites the record with
\* {head: null}, and returns; head() then returns null until a commit
\* succeeds, and the first commit that succeeds returns previous = null.
C13_RepairedHeadRecord ==
  /\ [][ /\ (/\ boot = "read" /\ boot' # "read"
              /\ Has(adapter, HEAD_KEY) /\ MalformedHead(adapter[HEAD_KEY])) =>
              /\ boot' = "write"
              /\ inflight' = {Write(0, BootSlot, HEAD_KEY, encodeHead(JNull))}
              /\ adapter' = adapter
         /\ boot # "read" => BootWrites(inflight') \subseteq BootWrites(inflight)
         /\ (boot = "write" /\ boot' # "write") =>
              /\ boot' = "ready" /\ headMemo' = JNull
              /\ ~MalformedHead(adapter'[HEAD_KEY])
              /\ JsonParse(adapter'[HEAD_KEY]).val = JObj(<< <<"head", JNull>> >>)
       ]_vars
  /\ [](/\ boot # "failed"
        /\ \A c \in DOMAIN calls :
            (calls[c].kind = "head" /\ Settled(calls[c]) /\ LogBefore(c) = {}) =>
               calls[c].out.st = "null"
        /\ log # <<>> => log[1].version.previous = JNull)

C13_Witness ==
  /\ nboots = 1 /\ Len(calls) = 2 /\ Len(log) = 1
  /\ IsDone(1, "head") /\ calls[1].out.st = "null" /\ calls[1].arg = JNull
  /\ IsDone(2, "commit") /\ calls[2].out.st = "value"
  /\ calls[2].out.version.previous = JNull
  /\ ~MalformedHead(adapter[HEAD_KEY])

\* C14: the head survives a restart.  A store constructed over the adapter
\* after earlier instances committed adopts the persisted head: when it is
\* returned its head is the hash of the last commit that succeeded; its
\* head() returns the hash, previous and timestamp of that commit and a
\* value semantically equal to the one that commit returned, read back
\* from the adapter; and its next commit returns previous = that hash.
C14_HeadSurvivesRestart ==
  /\ (boot = "ready" /\ calls = <<>>) => headMemo = HeadOfLog
  /\ \A c \in DOMAIN calls : \A i \in LogBefore(c) :
        (/\ calls[c].kind = "head" /\ Settled(calls[c])
         /\ i = Cardinality(LogBefore(c)) /\ log[i].c = 0)
        => /\ calls[c].out.st = "value"
           /\ calls[c].out.version.hash = log[i].version.hash
           /\ calls[c].out.version.previous = log[i].version.previous
           /\ calls[c].out.version.timestamp = log[i].version.timestamp
           /\ SemEq(calls[c].out.version.value.val, log[i].version.value.val)
  /\ \A i \in DOMAIN log :
        (i > 1 /\ log[i - 1].c = 0 /\ log[i].c > 0) =>
           log[i].version.previous = JStr(log[i - 1].version.hash)

C14_Witness ==
  /\ nboots = 2 /\ Len(log) = 2 /\ Len(calls) = 2
  /\ log[1].c = 0 /\ log[2].c = 2
  /\ IsDone(1, "head") /\ calls[1].out.st = "value"
  /\ calls[1].out.version.hash = log[1].version.hash
  /\ calls[1].out.version.value.val = SchemaParse(InputDup).val
  /\ log[2].version.previous = JStr(log[1].version.hash)

(***************************************************************************)
(* Properties of the values returned: identity and immutability.           *)
(***************************************************************************)
\* C17: on one store instance, every head() or get(hash) that is asked for
\* a version which an earlier commit of the instance returned resolves to
\* that version with a value that is the very reference (an array or
\* object, never a copy) the commit returned, whatever commits happened in
\* between.
C17_SharedIdentity ==
  \A c \in DOMAIN calls : \A i \in LogBefore(c) :
     (/\ IsQuery(calls[c]) /\ log[i].c > 0
      /\ Target(c) = JStr(log[i].version.hash))
     => /\ calls[c].out.st = "value"
        /\ calls[c].out.version.value.ref # NoRef
        /\ calls[c].out.version.value = log[i].version.value
        /\ calls[log[i].c].out.version.value = log[i].version.value

C17_Witness ==
  /\ Len(log) = 2 /\ Len(calls) = 3
  /\ IsDone(3, "get") /\ calls[3].arg = JStr(log[1].version.hash)
  /\ calls[3].out.version.value.ref = calls[1].out.version.value.ref
  /\ calls[3].out.version.value.ref # calls[2].out.version.value.ref
  /\ calls[3].out.version.value.ref # NoRef

\* the call has returned a value to its caller
Returned(call) == call.pc = "done" /\ call.out.st = "value"

\* C18 as stated: every value returned by commit, head, get or
\* ObjectStore.read is deeply frozen, whether it came from the write path,
\* from the in-memory cache or was rebuilt from adapter blocks.
C18_DeeplyFrozen ==
  \A c \in DOMAIN calls :
     (calls[c].kind \in {"commit", "head", "get", "read"} /\ Returned(calls[c]))
     => calls[c].out.version.value.frozen

(***************************************************************************)
(* Properties of get over missing and damaged blocks (SpecGet).            *)
(***************************************************************************)
\* a decoded block with the fields of a version block
VersionShaped(v) ==
  /\ IsObject(v)
  /\ Prop(v, "value")[1] = "str"
  /\ Prop(v, "previous")[1] \in {"str", "null"}
  /\ Prop(v, "timestamp")[1] = "num"

\* get(hash) finds no version for one of the three reasons of C15
NoVersionAt(store, hash) ==
  \/ ~Has(store, hash)
  \/ /\ Has(store, hash) /\ JsonParse(store[hash]).ok
     /\ LET v == JsonParse(store[hash]).val
        IN \/ ~VersionShaped(v)
           \/ VersionShaped(v) /\ ~Has(store, Prop(v, "value")[2])

\* C15: get(h) resolves to null, and does not throw, when the adapter has
\* no block under h, when the block under h decodes to JSON that is not
\* shaped like a version block, and when the block is a version block
\* whose value hash has no block in the adapter.
C15_GetNull ==
  \A c \in DOMAIN calls :
     (/\ calls[c].kind = "get" /\ Settled(calls[c])
      /\ NoVersionAt(adapter, calls[c].arg[2]))
     => calls[c].pc = "done" /\ calls[c].out.st = "null"

C15_Witness ==
  /\ Len(calls) = 1 /\ IsDone(1, "get") /\ calls[1].arg = JStr("dangling-version")
  /\ VersionShaped(JsonParse(adapter["dangling-version"]).val)
  /\ calls[1].vh = "missing-value" /\ ~Has(adapter, "missing-value")
  /\ calls[1].out.st = "null"

RECURSIVE Undecodable(_, _)
\* the block under `hash`, or under a node below it, is not JSON
Undecodable(store, hash) ==
  /\ Has(store, hash)
  /\ LET parsed == JsonParse(store[hash])
     IN \/ ~parsed.ok
        \/ /\ parsed.ok /\ NodeKind(parsed.val) \in {"arr", "obj"}
           /\ \E i \in 1..Len(NodeKids(parsed.val)) :
                 Undecodable(store, NodeKids(parsed.val)[i][2])

\* the bytes under h, or under a node of the value that the version block
\* under h names, cannot be decoded
CorruptAt(store, hash) ==
  /\ Has(store, hash)
  /\ LET parsed == JsonParse(store[hash])
     IN \/ ~parsed.ok
        \/ /\ parsed.ok /\ VersionShaped(parsed.val)
           /\ Undecodable(store, Prop(parsed.val, "value")[2])

\* C16 as stated: get(h) returns null rather than rejecting when the bytes
\* under h, or under any node of the value the version references, cannot
\* be decoded.
C16_GetNullOnCorruptBlock ==
  \A c \in DOMAIN calls :
     (/\ calls[c].kind = "get" /\ Settled(calls[c])
      /\ CorruptAt(adapter, calls[c].arg[2]))
     => calls[c].pc = "done" /\ calls[c].out.st = "null"

(***************************************************************************)
(* Properties of the cascade adapter (specification SpecCascade).          *)
(***************************************************************************)
\* the head that createStore adopts from what adapter.read(HEAD_KEY), here
\* the settled cascade read `call`, returned
AdoptedHead(call) ==
  IF call.out.st = "value" THEN decodeHead(call.val) ELSE JNull

IsHeadRead(c) ==
  c \in DOMAIN calls /\ calls[c].kind = "cread" /\ calls[c].arg = HEAD_KEY
  /\ calls[c].pc = "done"

\* C11 as stated, for a store over a cascade adapter: when the write of
\* the head record that commit awaits (persistHead's adapter.write, here
\* cascade.write) fails in at least one layer and so rejects, the store
\* stays at the previous head: a store constructed afterwards over the same
\* adapter adopts (from its read of the head record) the head that a store
\* constructed before the commit adopted.
C11_FailedHeadWriteKeepsHead ==
  \A w \in DOMAIN calls :
     (/\ calls[w].kind = "cwrite" /\ calls[w].arg = HEAD_KEY /\ calls[w].pc = "failed"
      /\ IsHeadRead(w - 1) /\ IsHeadRead(w + 1))
     => AdoptedHead(calls[w + 1]) = AdoptedHead(calls[w - 1])

\* the bytes that layer `index` holds under the hash of call c are `bytes`
Holds(ls, index, c, bytes) ==
  Has(ls[index], calls[c].arg) /\ ls[index][calls[c].arg] = bytes

\* C19: a cascade read probes the layers in their declared order, one at a
\* time, and stops at the first layer Lk that holds the hash (so only
\* L0..Lk are read); the bytes it returns are those Lk holds; while it
\* runs, the only changes of the layers are its hydration writes, which
\* store those bytes in layers above Lk (Lk and the slower layers are
\* unchanged); when it resolves, each of L0..Lk holds the block with the
\* returned bytes; and a read of the same hash that follows is answered by
\* L0 alone, with the same bytes.
C19_ReadHydrates ==
  /\ [][ \A c \in DOMAIN calls :
           (calls[c].kind = "cread" /\ ~Settled(calls[c])) =>
              LET before == Probed(calls[c])
                  after == Probed(calls'[c])
                  k == Cardinality(after)
              IN /\ before \subseteq after /\ after = 1..k
                 /\ Cardinality(after \ before) <= 1
                 /\ (calls[c].pc = "probe" /\ calls'[c].pc # "probe"
                       /\ calls'[c].out.st # "undefined") =>
                       /\ Holds(layers, k, c, calls'[c].val)
                       /\ \A i \in 1..(k - 1) : ~Has(layers[i], calls[c].arg)
                 /\ \A i \in DOMAIN layers :
                       layers'[i] # layers[i] =>
                          /\ calls[c].pc = "hydrate" /\ i < k
                          /\ layers'[i] = (calls[c].arg :> calls[c].val) @@ layers[i]
                 /\ Returned(calls'[c]) =>
                       /\ calls'[c].val = calls[c].val \/ calls[c].pc = "probe"
                       /\ \A i \in 1..k : Holds(layers', i, c, calls'[c].val)
       ]_vars
  /\ [](\A c \in DOMAIN calls :
          (/\ c > 1 /\ calls[c].kind = "cread" /\ Settled(calls[c])
           /\ calls[c - 1].kind = "cread" /\ Returned(calls[c - 1])
           /\ calls[c - 1].arg = calls[c].arg)
          => /\ Returned(calls[c]) /\ Probed(calls[c]) = {1}
             /\ calls[c].val = calls[c - 1].val)

C19_Witness ==
  /\ Len(calls) = 2
  /\ calls[1].kind = "cread" /\ Returned(calls[1]) /\ Probed(calls[1]) = {1, 2, 3}
  /\ calls[1].issued = LayerIssues({1, 2}) @@ [e \in {<<"r", i>> : i \in 1..3} |-> 1]
  /\ calls[2].kind = "cread" /\ Returned(calls[2]) /\ Probed(calls[2]) = {1}
  /\ \A i \in 1..3 : Holds(layers, i, 2, calls[1].val)

\* the layer writes of call c in flight
WritesOf(ws, c) == {w \in ws : w.c = c}

\* C20: cascade.write is write-through with a barrier: in the step in
\* which a write resolves, every layer holds the block with the bytes
\* written and none of its layer writes is in flight; and when a layer
\* rejects one of its writes, the cascade write rejects (in that step if
\* it had not yet) and never resolves.
C20_WriteThrough ==
  [][ \A c \in DOMAIN calls :
        calls[c].kind = "cwrite" =>
           /\ (calls[c].pc # "done" /\ calls'[c].pc = "done") =>
                 /\ \A i \in DOMAIN layers : Holds(layers', i, c, calls[c].val)
                 /\ WritesOf(inflight', c) = {}
           /\ (nfail' # nfail /\ WritesOf(inflight', c) # WritesOf(inflight, c)) =>
                 calls'[c].pc = "failed" /\ calls'[c].out.st = "throw"
           /\ calls[c].pc = "failed" => calls'[c].pc = "failed"
    ]_vars

C20_Witness ==
  /\ Len(calls) = 2 /\ nfail = 1
  /\ calls[1].kind = "cwrite" /\ calls[1].pc = "failed"
  /\ calls[2].kind = "cwrite" /\ calls[2].pc = "done" /\ calls[2].out.st = "void"
  /\ \A i \in DOMAIN layers : Holds(layers, i, 2, HeadBlock("v2").bytes)
  /\ inflight = {}

(***************************************************************************)
(* Buffers across the cascade boundary (SpecKeep).                         *)
(***************************************************************************)
\* the bytes last passed to cascade.write before event c, or the seeded
\* bytes when there was no write
WrittenBefore(c) ==
  LET ws == {k \in 1..(c - 1) : calls[k].kind = "cwrite"}
  IN IF ws = {} THEN HeadBlock("v1").bytes
     ELSE HeadBlock("v2").bytes

\* C21 as stated: no buffer is shared across the cascade boundary: the
\* bytes a cascade read returns are the bytes last written under the hash
\* (or seeded), whatever the caller did afterwards to the buffers it passed
\* to write or was returned by read, with layers that keep the buffers
\* they are handed.
C21_NoSharedBuffer ==
  \A c \in DOMAIN calls :
     (calls[c].kind = "cread" /\ Returned(calls[c]))
     => calls[c].val.bytes = WrittenBefore(c)

(***************************************************************************)
(* Overlapping commits (SpecOverlap).                                      *)
(***************************************************************************)
\* head `from` (null or a version hash) is `to` or is found from `to` by
\* following `previous` links through the versions in `cache`
RECURSIVE Ancestor(_, _, _)
Ancestor(cache, from, to) ==
  \/ from = to
  \/ /\ IsStr(to) /\ Has(cache, to[2])
     /\ Ancestor(cache, from, cache[to[2]].previous)

\* C22 as stated: for commit calls on one instance, also ones started
\* before earlier ones have settled, each change of the head goes from h to
\* a version that has h as an ancestor, and once all calls have settled
\* every successfully committed version is reachable from the head via
\* `previous` links.
C22_HeadMonotonic ==
  /\ [][headMemo' # headMemo => Ancestor(versionCache', headMemo, headMemo')]_vars
  /\ []((boot = "ready" /\ \A c \in DOMAIN calls : Settled(calls[c])) =>
          \A i \in DOMAIN log :
             Ancestor(versionCache, JStr(log[i].version.hash), headMemo))

(***************************************************************************)
(* Construction, misses and the single-layer cascade (SpecCreate).         *)
(***************************************************************************)
\* no layer holds the hash of call c
HeldNowhere(c) == \A i \in DOMAIN layers : ~Has(layers[i], calls[c].arg)

\* the operations call c has issued so far of kind "r" (layer reads) or
\* "w" (layer writes)
IssuedBy(call, kind) == {e \in DOMAIN call.issued : e[1] = kind}

\* C23: a cascade of exactly one layer behaves as that layer: a read
\* settles in the step in which the layer's read returns, with the bytes
\* the layer holds or absent when it holds none, and issues no layer write
\* and changes nothing in the layer; a write resolves only when the layer
\* holds the block under its hash with the bytes written, as after a
\* direct write, and rejects, with the layer unchanged, when the layer's
\* write rejects.
C23_SingleLayer ==
  [][ Len(layers) = 1 =>
        \A c \in DOMAIN calls :
           /\ (calls[c].kind = "cread" /\ calls[c].pc = "probe") =>
                 /\ calls'[c] # calls[c] =>
                       /\ Settled(calls'[c])
                       /\ IF Has(layers[1], calls[c].arg)
                          THEN /\ Returned(calls'[c])
                               /\ calls'[c].val = layers[1][calls[c].arg]
                          ELSE calls'[c].out.st = "undefined"
                       /\ IssuedBy(calls'[c], "r") = {<<"r", 1>>}
                 /\ IssuedBy(calls'[c], "w") = {}
                 /\ WritesOf(inflight', c) = {}
                 /\ layers' = layers
           /\ (calls[c].kind = "cwrite" /\ ~Settled(calls[c])) =>
                 /\ calls'[c].pc = "done" =>
                       /\ Holds(layers', 1, c, calls[c].val)
                       /\ layers' = layers
                 /\ calls'[c].pc = "failed" => layers' = layers /\ nfail' = nfail + 1
                 /\ layers' # layers =>
                       layers'[1] = (calls[c].arg :> calls[c].val) @@ layers[1]
    ]_vars

C23_Witness ==
  /\ Len(layers) = 1 /\ Len(calls) = 3
  /\ calls[1].kind = "cread" /\ calls[1].out.st = "undefined"
  /\ calls[2].kind = "cwrite" /\ calls[2].pc = "done"
  /\ calls[3].kind = "cread" /\ Returned(calls[3])
  /\ calls[3].val = HeadBlock("v2").bytes /\ calls[3].issued = (<<"r", 1>> :> 1)

\* C24: a cascade read of a hash that no layer holds probes the layers in
\* their declared order, each once, and then returns absent; it issues no
\* layer write and changes no layer.
C24_MissProbesAll ==
  [][ \A c \in DOMAIN calls :
        (calls[c].kind = "cread" /\ calls[c].pc = "probe" /\ HeldNowhere(c)) =>
           LET before == Cardinality(IssuedBy(calls[c], "r"))
           IN /\ calls'[c] # calls[c] =>
                    /\ calls'[c].issued = (<<"r", before + 1>> :> 1) @@ calls[c].issued
                    /\ IF before + 1 = Len(layers)
                       THEN calls'[c].pc = "done" /\ calls'[c].out.st = "undefined"
                       ELSE calls'[c].pc = "probe"
              /\ DOMAIN calls[c].issued = {<<"r", i>> : i \in 1..before}
              /\ \A e \in DOMAIN calls[c].issued : calls[c].issued[e] = 1
              /\ WritesOf(inflight', c) = {}
              /\ layers' = layers
    ]_vars

C24_Witness ==
  /\ Len(layers) = 3 /\ Len(calls) = 1
  /\ calls[1].kind = "cread" /\ calls[1].pc = "done" /\ calls[1].out.st = "undefined"
  /\ calls[1].issued = [e \in {<<"r", i>> : i \in 1..3} |-> 1]
  /\ HeldNowhere(1) /\ inflight = {}

\* C25: createCascadeAdapter throws for the empty list of adapters and
\* returns no adapter (no read or write is ever made), and for a list of
\* one or more adapters it returns the cascade over them.
C25_EmptyListThrows ==
  /\ [](/\ boot \in {"create", "cascade", "threw"}
        /\ boot = "threw" => Len(layers) = 0 /\ calls = <<>> /\ inflight = {}
        /\ boot = "cascade" => Len(layers) >= 1)
  /\ [][boot = "create" => boot' = IF Len(layers) = 0 THEN "threw" ELSE "cascade"]_vars

C25_Witness == boot = "threw" /\ Len(layers) = 0

(***************************************************************************)
(* The hasher against the object store (Spec).                             *)
(***************************************************************************)
\* C26 as stated: hasher.hashValue(v) is the root hash that persisting v
\* with ObjectStore.write returns, also for objects whose keys differ in
\* case: for every value a commit has persisted, hashValue of the value is
\* the hash objectStore.write returned for it.
C26_HashValueMatchesWrite ==
  \A i \in DOMAIN log : hashValue(log[i].parsed) = log[i].valueHash

\* the keys of the entries of an object node, in the order of the block
NodeKeys(node) == [i \in 1..Len(node[2][2][2]) |-> node[2][2][2][i][2][1][2]]

\* ascending Unicode code-point order; for the keys of the model (ASCII)
\* it is the order of KeyOrder
CodePointSorted(keys) ==
  \A i, j \in 1..Len(keys) : i < j => KeyRank(keys[i]) < KeyRank(keys[j])

\* the object node blocks among the blocks of `map`
ObjectBlocks(map) ==
  {node \in {JsonParse(map[h]).val : h \in {k \in DOMAIN map : JsonParse(map[k]).ok}} :
     IsArray(node) /\ Len(node[2]) = 2 /\ node[2][1] = JNum("2")}

\* the objects inside value v
ObjectsIn(v) == {ValAt(v, path) : path \in {q \in Paths(v) : IsObject(ValAt(v, q))}}

\* C27 as stated: every object node block written by the store lists its
\* entries sorted by key in Unicode code-point order, whatever the insertion
\* order and the locale collation: the blocks ObjectStore.write has put in
\* the adapter, and the blocks persistCompositeObject composes for the same
\* objects.
C27_CodePointOrder ==
  /\ \A node \in ObjectBlocks(adapter) : CodePointSorted(NodeKeys(node))
  /\ \A i \in DOMAIN log : \A v \in ObjectsIn(log[i].parsed) :
        CodePointSorted(NodeKeys(persistCompositeObject(v)))

(***************************************************************************)
(* Node blocks that are not canonical (SpecGet).                           *)
(***************************************************************************)
\* node is [0, primitive], [1, [hash, ...]] or [2, [[key, hash], ...]]
CanonicalNode(node) ==
  /\ IsArray(node) /\ Len(node[2]) = 2
  /\ LET tag == node[2][1]
         payload == node[2][2]
     IN \/ tag = JNum("0") /\ isJsonPrimitive(payload)
        \/ /\ tag = JNum("1") /\ IsArray(payload)
           /\ \A i \in 1..Len(payload[2]) : IsStr(payload[2][i])
        \/ /\ tag = JNum("2") /\ IsArray(payload)
           /\ \A i \in 1..Len(payload[2]) :
                 /\ IsArray(payload[2][i]) /\ Len(payload[2][i][2]) = 2
                 /\ IsStr(payload[2][i][2][1]) /\ IsStr(payload[2][i][2][2])

\* the bytes are the encoding of a canonical node
CanonicalBytes(bytes) == JsonParse(bytes).ok /\ CanonicalNode(JsonParse(bytes).val)

\* C28 as stated: a block whose bytes are not a canonical node encoding (a
\* tag other than 0, 1, 2, or a payload whose shape does not match the tag)
\* is rejected by deserialize: ObjectStore.read of it returns no value and
\* caches none, so the object store never holds a value under the hash of
\* such a block.
C28_RejectsNonCanonical ==
  \A h \in DOMAIN adapter :
     ~CanonicalBytes(adapter[h]) => ~Has(objectStore.hashToValue, h)

(***************************************************************************)
(* Writing a reference the store returned (SpecRewrite).                   *)
(***************************************************************************)
\* C29 as stated: ObjectStore.write passes an already frozen input through
\* unchanged, so a write of the very array or object that a read of the
\* instance returned is answered from the identity-keyed hint cache: none
\* of its writeFrozen invocations awaits child writes, hashFn or the
\* adapter, it issues no adapter operation, and it returns the hash the
\* hint cache holds for the reference.
C29_RewriteFromHints ==
  \A c \in DOMAIN calls :
     (/\ calls[c].kind = "write" /\ calls[c].arg[1] = "ref"
      /\ ~isJsonPrimitive(calls[c].val))
     => /\ \A path \in DOMAIN calls[c].tasks :
              calls[c].tasks[path].st \in {"none", "done"}
        /\ calls[c].issued = EmptyMap
        /\ calls[c].tasks[<<>>].h = objectStore.objectHints[calls[c].arg[2].ref]

(***************************************************************************)
(* Reads of nodes with lost descendants (SpecGet).                         *)
(***************************************************************************)
RECURSIVE MissingBelow(_, _)
\* the array or object node under `hash` has a child, at some depth, whose
\* block is not in `store`
MissingBelow(store, hash) ==
  /\ Has(store, hash) /\ JsonParse(store[hash]).ok
  /\ LET node == JsonParse(store[hash]).val
     IN /\ NodeKind(node) \in {"arr", "obj"}
        /\ \E i \in 1..Len(NodeKids(node)) :
              \/ ~Has(store, NodeKids(node)[i][2])
              \/ MissingBelow(store, NodeKids(node)[i][2])

\* the node under `hash` has a lost descendant and every block that is
\* left below it is a JSON node
LostBelow(store, hash) == MissingBelow(store, hash) /\ ~Undecodable(store, hash)

KidHashes(bytes) ==
  LET parsed == JsonParse(bytes)
  IN IF parsed.ok /\ NodeKind(parsed.val) \in {"arr", "obj"}
     THEN {NodeKids(parsed.val)[i][2] : i \in 1..Len(NodeKids(parsed.val))}
     ELSE {}

\* path q lies strictly below path p
Below(q, p) == Len(q) > Len(p) /\ SubSeq(q, 1, Len(p)) = p

\* C31: while the adapter write of an array or object node is in flight,
\* the blocks of all its children are in the adapter and no write of the
\* same ObjectStore.write for a node below it is still in flight, whatever
\* the order in which the child writes were applied, acknowledged or
\* rejected; and every node block in the adapter has the blocks of all its
\* children in the adapter.
C31_ChildrenFirst ==
  /\ \A w \in inflight :
        w.slot[1] = "n" =>
           /\ KidHashes(w.bytes) \subseteq DOMAIN adapter
           /\ \A x \in inflight :
                 ~(x.c = w.c /\ x.slot[1] = "n" /\ Below(x.slot[2], w.slot[2]))
  /\ \A h \in DOMAIN adapter : KidHashes(adapter[h]) \subseteq DOMAIN adapter

C31_Witness ==
  /\ nfail = 1
  /\ \E w \in inflight :
        /\ w.slot[1] = "n" /\ ~w.applied
        /\ Cardinality(KidHashes(w.bytes)) = 2
        /\ KidHashes(w.bytes) \subseteq DOMAIN adapter

(***************************************************************************)
(* Reads of the store (SpecAdopt).                                         *)
(***************************************************************************)
\* the calls of head() and get() that the step starts or advances
ReadsStepped ==
  {c \in DOMAIN calls' :
     /\ calls'[c].kind \in {"head", "get"}
     /\ (c \in DOMAIN calls => calls'[c] # calls[c])}

\* C32: reads never mutate persistent state.  No step of a head() or get()
\* call, from the call to its settling, whether it resolves to a version,
\* resolves to null or rejects, issues an adapter write or changes a block
\* of the adapter (the head record among them) or headMemo; a settled
\* head() or get() has issued no write.
C32_ReadsMutateNothing ==
  /\ [][ReadsStepped # {} => UNCHANGED <<adapter, inflight, headMemo>>]_vars
  /\ [](\A c \in DOMAIN calls :
          calls[c].kind \in {"head", "get"} => calls[c].issued = EmptyMap)

\* head() has resolved to null on a store whose head names a hash that has
\* no block, after the adapter was read
C32_Witness ==
  /\ headMemo = JStr("missing")
  /\ \E c \in DOMAIN calls :
        /\ calls[c].kind = "head" /\ calls[c].pc = "done"
        /\ calls[c].out.st = "null"

(***************************************************************************)
(* Depth-limited materialization (SpecMaterialize).                        *)
(***************************************************************************)
\* the hash persist gives a value
HashOf(value) == persistValue(value, EmptyMap).hash

\* the value with every node at depth > d (the root being at depth `at`)
\* replaced by its hash
RECURSIVE Cut(_, _, _)
Cut(value, at, d) ==
  IF at > d THEN JStr(HashOf(value))
  ELSE IF isJsonPrimitive(value) THEN value
  ELSE IF IsArray(value)
       THEN JArr([i \in 1..Len(value[2]) |-> Cut(value[2][i], at + 1, d)])
  ELSE JObj([i \in 1..Len(value[2]) |->
               <<value[2][i][1], Cut(value[2][i][2], at + 1, d)>>])

\* the hashes of the nodes of value at depth <= d
RECURSIVE HashesTo(_, _, _)
HashesTo(value, at, d) ==
  IF at > d THEN {}
  ELSE {HashOf(value)} \cup
       (IF isJsonPrimitive(value) THEN {}
        ELSE IF IsArray(value)
             THEN UNION {HashesTo(value[2][i], at + 1, d) : i \in 1..Len(value[2])}
        ELSE UNION {HashesTo(value[2][i][2], at + 1, d) : i \in 1..Len(value[2])})

\* C33: materialize(hash, {limitDepth: d}) with d >= 0 of the root hash of
\* a persisted value returns the value with the nodes at depth <= d
\* expanded (the root is at depth 0) and every child of a node at depth d
\* replaced by the child's hash string, and reads no block below depth d;
\* without limitDepth it returns a value semantically equal to the
\* persisted one.
C33_DepthLimited ==
  \A m \in DOMAIN calls :
     calls[m].kind = "materialize" =>
        LET value == calls[calls[m].arg[1]].arg
            options == calls[m].arg[2]
        IN /\ calls[m].pc = "done"
           /\ IF options = <<>> THEN SemEq(calls[m].val, value)
              ELSE /\ SemEq(calls[m].val, Cut(value, 0, options[1]))
                   /\ DOMAIN calls[m].issued \subseteq HashesTo(value, 0, options[1])

\* the object nested three deep was materialized with limitDepth 1: the
\* result holds hash strings two levels down
C33_Witness ==
  \E m \in DOMAIN calls :
     /\ calls[m].kind = "materialize" /\ calls[m].arg[2] = <<1>>
     /\ IsObject(calls[m].val)
     /\ IsObject(Prop(calls[m].val, "b"))
     /\ IsStr(Prop(Prop(calls[m].val, "b"), "a"))
     /\ IsArray(Prop(calls[m].val, "a"))
     /\ IsStr(Prop(calls[m].val, "a")[2][1])
     /\ Prop(calls[m].val, "a")[2][1] # JStr("hi")

(***************************************************************************)
(* The memoised head and the head record.                                  *)
(***************************************************************************)
\* C34: whenever the store has been constructed and no operation is in
\* flight, the adapter holds a head record and headMemo equals the head
\* decoded from it.
C34_HeadMemoIsRecord ==
  Idle => /\ Has(adapter, HEAD_KEY)
          /\ headMemo = decodeHead(adapter[HEAD_KEY])

(***************************************************************************)
(* The caches as existence proofs (SpecFail).                              *)
(***************************************************************************)
\* the hashes the instance's caches hold
CachedHashes ==
  DOMAIN objectStore.hashToValue
    \cup {objectStore.primitiveHints[v] : v \in DOMAIN objectStore.primitiveHints}
    \cup {objectStore.objectHints[r] : r \in DOMAIN objectStore.objectHints}
    \cup DOMAIN versionCache

\* C35: every hash held in hashToValue, in the hint caches or in
\* versionCache has a block in the adapter, and every block the adapter
\* holds has the blocks of its children: a write skipped on a cache hit
\* leaves no referenced block unpersisted, also when writes fail and
\* overlap.
C35_CachesProveExistence ==
  /\ CachedHashes \subseteq DOMAIN adapter
  /\ \A h \in DOMAIN adapter \ {HEAD_KEY} :
        /\ KidHashes(adapter[h]) \subseteq DOMAIN adapter
        /\ isVersionBlock(JsonParse(adapter[h]).val) =>
              Has(adapter, Prop(JsonParse(adapter[h]).val, "value")[2])

\* a commit has failed on a rejected write after it had issued two writes
\* of one hash that overlapped, and a later commit has skipped the write
\* of a node on a cache hit and has resolved
C35_Witness ==
  /\ nfail > 0
  /\ \E c \in DOMAIN calls :
        /\ Returned(calls[c])
        /\ \E path \in DOMAIN calls[c].tasks :
              /\ calls[c].tasks[path].st = "done"
              /\ ~Has(calls[c].issued, <<"n", calls[c].tasks[path].h>>)
        /\ \E b \in DOMAIN calls :
              /\ b < c /\ calls[b].pc = "failed"
              /\ \E e \in DOMAIN calls[b].issued : calls[b].issued[e] = 2

(***************************************************************************)
(* commit and head on an adopted head record (SpecAdopt).                  *)
(***************************************************************************)
\* log entry i is the first commit of this instance that succeeded after
\* call h was made
NextCommitAfter(h, i) ==
  /\ log[i].c > h
  /\ \A j \in DOMAIN log : log[j].c > h => log[j].c >= log[i].c

\* C36: commit links to what head() shows.  On a store constructed over
\* any head record, when head() has resolved to null the next successful
\* commit returns previous = null, and when head() has resolved to a
\* version the next successful commit returns previous = that version's
\* hash.
C36_CommitLinksToHead ==
  \A h \in DOMAIN calls : \A i \in DOMAIN log :
     (calls[h].kind = "head" /\ calls[h].pc = "done" /\ NextCommitAfter(h, i)) =>
        log[i].version.previous =
           IF calls[h].out.st = "null" THEN JNull
           ELSE JStr(calls[h].out.version.hash)

(***************************************************************************)
(* get of hashes that are no version (SpecAsk).                            *)
(***************************************************************************)
\* the hashes returned by the commits that had resolved when call c was made
CommittedBefore(c) == {log[i].version.hash : i \in LogBefore(c)}

\* C37: on a store over empty storage, after any sequence of successful
\* commits, a get never rejects, and it resolves to a version exactly when
\* it was asked for a hash that one of those commits returned; for the
\* hash of a value node and for the key of the head record it resolves to
\* null.
C37_GetOnlyCommitted ==
  \A c \in DOMAIN calls :
     (calls[c].kind = "get" /\ Settled(calls[c])) =>
        /\ calls[c].pc = "done"
        /\ calls[c].out.st \in {"value", "null"}
        /\ calls[c].out.st = "value" <=> calls[c].arg[2] \in CommittedBefore(c)
        /\ calls[c].out.st = "value" => calls[c].out.version.hash = calls[c].arg[2]

\* after two commits, get of the key of the head record has resolved to
\* null
C37_Witness ==
  /\ Len(log) = 2
  /\ \E c \in DOMAIN calls :
        /\ calls[c].kind = "get" /\ calls[c].arg = JStr(HEAD_KEY)
        /\ calls[c].pc = "done" /\ calls[c].out.st = "null"
        /\ Cardinality(LogBefore(c)) = 2

(***************************************************************************)
(* Construction over a head record (SpecAdopt).                            *)
(***************************************************************************)
\* the bytes are a head record whose `head` is a string or null
WellFormedHead(bytes) ==
  LET data == JsonParse(bytes)
  IN /\ data.ok /\ IsObject(data.val)
     /\ Prop(data.val, "head")[1] \in {"str", "null"}

\* C38: constructing a store over an adapter that holds a well-formed head
\* record issues no adapter write: from the read of `__hstore_head__` to
\* the return of createStore no write is issued.
C38_AdoptWithoutWrite ==
  [][(boot = "read" /\ Has(adapter, HEAD_KEY) /\ WellFormedHead(adapter[HEAD_KEY]))
       => (inflight' = inflight /\ boot' = "ready")]_vars

(***************************************************************************)
(* What commit persists (Spec).                                            *)
(***************************************************************************)
\* the value that the blocks of `store` encode under `hash`
RECURSIVE DecodeAt(_, _)
DecodeAt(store, hash) ==
  LET node == JsonParse(store[hash]).val
  IN IF NodeKind(node) = "prim" THEN node[2][2]
     ELSE IF NodeKind(node) = "arr"
          THEN JArr([i \in 1..Len(NodeKids(node)) |-> DecodeAt(store, NodeKids(node)[i][2])])
     ELSE JObj([i \in 1..Len(NodeKids(node)) |->
                  <<NodeKids(node)[i][1], DecodeAt(store, NodeKids(node)[i][2])>>])

\* C39: commit persists and returns the schema's parsed output.  For every
\* commit that has resolved, the value hash in its version block is the
\* hash objectStore.write returned for parse(input) and names blocks that
\* encode parse(input), the value commit returned is semantically equal to
\* parse(input), and so is the value of a head() that follows it.
C39_PersistsParsedOutput ==
  \A i \in DOMAIN log :
     LET parsed == SchemaParse(log[i].input).val
         block == decodeVersionBlock(adapter[log[i].version.hash]).val
     IN /\ Prop(block, "value") = JStr(log[i].valueHash)
        /\ SemEq(DecodeAt(adapter, log[i].valueHash), parsed)
        /\ SemEq(log[i].version.value.val, parsed)
        /\ \A c \in DOMAIN calls :
              (calls[c].kind = "head" /\ Settled(calls[c])
                 /\ i \in LogBefore(c) /\ i = Cardinality(LogBefore(c))) =>
                 SemEq(calls[c].out.version.value.val, parsed)

\* a commit of an input with a key the schema strips has resolved, and
\* head() after it has returned a value without that key
C39_Witness ==
  \E i \in DOMAIN log : \E c \in DOMAIN calls :
     /\ log[i].input = InputExtra
     /\ "b" \in Keys(log[i].input)
     /\ calls[c].kind = "head" /\ calls[c].pc = "done" /\ calls[c].out.st = "value"
     /\ calls[c].out.version.hash = log[i].version.hash
     /\ "b" \notin Keys(calls[c].out.version.value.val)
     /\ "b" \notin Keys(DecodeAt(adapter, log[i].valueHash))

(***************************************************************************)
(* A cascade read that overlaps a cascade write (SpecCascadeOverlap).      *)
(***************************************************************************)
\* C40: once a cascade.write of new bytes for the key of the head record
\* and a cascade.read of that key have both settled, whether or not they
\* overlapped, every layer that holds the key holds the newly written
\* bytes (so that later reads return them): no hydration write has
\* overwritten the newer bytes in a faster layer.
C40_NoStaleCopy ==
  (/\ inflight = {}
   /\ \A c \in DOMAIN calls : Settled(calls[c])
   /\ \E c \in DOMAIN calls : calls[c].kind = "cread"
   /\ \E c \in DOMAIN calls : calls[c].kind = "cwrite" /\ calls[c].pc = "done")
    => \A i \in DOMAIN layers :
          Has(layers[i], HEAD_KEY) => layers[i][HEAD_KEY] = HeadBlock("v2").bytes

====
